---- MODULE Spec2Model ----
(***************************************************************************)
(* International payments portal: the credential store, the login and      *)
(* register handlers (routes/auth.js, three builds), the bearer-token       *)
(* middleware (middleware/auth.js) and the transaction ledger               *)
(* (routes/payments.js).                                                    *)
(*                                                                          *)
(* JavaScript strings are sequences of one-character strings, so that trim, *)
(* escape, toUpperCase, parseFloat and the regular expressions are computed *)
(* and not assumed. A request field is a value [t, s]: a string, or         *)
(* undefined (a field the client left out).                                 *)
(***************************************************************************)
EXTENDS Integers, Sequences, FiniteSets, Bags, TLC

VARIABLES
    build,          \* which routes/auth.js is deployed: "logged", "open", "seeded"
    envSecret,      \* process.env.JWT_SECRET, <<>> when it is not set
    users,          \* auth.js: const users = new Map()      (email -> principal)
    accountsSeeded, \* auth.js (logged build): let accountsSeeded
    seedPc,         \* position of the pre-seed async IIFE
    pending,        \* bag of handlers suspended at an await (bcrypt.hash / compare)
    issued,         \* tokens returned to clients by successful logins
    transactions,   \* payments.js: const transactions = new Map(), in insertion order
    okIds,          \* the transactionIds answered by successful /process calls, in order
    now,            \* the clock, milliseconds
    resp,           \* the response sent by the last handler step
    client          \* App.jsx: the isLoggedIn and token state of the browser client

vars == <<build, envSecret, users, accountsSeeded, seedPc, pending, issued,
          transactions, okIds, now, resp, client>>

(***************************************************************************)
(* Bounds of the model.                                                     *)
(***************************************************************************)
MaxTxns == 2        \* successful /process calls
MaxElapsed == 1     \* milliseconds the clock may advance
MaxPending == 2     \* handlers suspended at an await at the same time

(***************************************************************************)
(* Strings.                                                                 *)
(***************************************************************************)
Lower == <<"a", "b", "c", "d", "e", "f", "g", "h", "i", "j", "k", "l", "m",
           "n", "o", "p", "q", "r", "s", "t", "u", "v", "w", "x", "y", "z">>
Upper == <<"A", "B", "C", "D", "E", "F", "G", "H", "I", "J", "K", "L", "M",
           "N", "O", "P", "Q", "R", "S", "T", "U", "V", "W", "X", "Y", "Z">>
Digits == <<"0", "1", "2", "3", "4", "5", "6", "7", "8", "9">>

Range(f) == {f[i] : i \in DOMAIN f}
LowerSet == Range(Lower)
UpperSet == Range(Upper)
DigitSet == Range(Digits)
IsLower(c) == c \in LowerSet
IsUpper(c) == c \in UpperSet
IsDigit(c) == c \in DigitSet
IsSpace(c) == c \in {" ", "\t", "\n"}

Str(s) == [t |-> "string", s |-> s]

\* a response's message: a fixed text, or a template text with its argument
Msg(text) == [text |-> text, arg |-> <<>>]
MsgWith(text, arg) == [text |-> text, arg |-> arg]
Undefined == [t |-> "undefined", s |-> <<>>]

RECURSIVE TrimStart(_)
TrimStart(s) ==
    IF s # <<>> /\ IsSpace(Head(s)) THEN TrimStart(Tail(s)) ELSE s

RECURSIVE TrimEnd(_)
TrimEnd(s) ==
    IF s # <<>> /\ IsSpace(s[Len(s)]) THEN TrimEnd(SubSeq(s, 1, Len(s) - 1)) ELSE s

\* String.prototype.trim
Trim(s) == TrimEnd(TrimStart(s))

\* the grave accent character (the lexer has no literal for it)
Backtick == "grave"

\* validator.escape: the markup-significant characters become HTML entities
EscapeChar(c) ==
    CASE c = "&"  -> <<"&", "a", "m", "p", ";">>
      [] c = "\"" -> <<"&", "q", "u", "o", "t", ";">>
      [] c = "'"  -> <<"&", "#", "x", "2", "7", ";">>
      [] c = "<"  -> <<"&", "l", "t", ";">>
      [] c = ">"  -> <<"&", "g", "t", ";">>
      [] c = "/"  -> <<"&", "#", "x", "2", "F", ";">>
      [] c = "\\" -> <<"&", "#", "x", "5", "C", ";">>
      [] c = Backtick -> <<"&", "#", "9", "6", ";">>
      [] OTHER    -> <<c>>

RECURSIVE Escape(_)
Escape(s) == IF s = <<>> THEN <<>> ELSE EscapeChar(Head(s)) \o Escape(Tail(s))

\* const sanitizeInput = (input) => validator.escape(input.trim())
sanitizeInput(s) == Escape(Trim(s))

UpperChar(c) ==
    IF IsLower(c) THEN Upper[CHOOSE i \in DOMAIN Lower : Lower[i] = c] ELSE c

\* String.prototype.toUpperCase
ToUpperCase(s) == [i \in DOMAIN s |-> UpperChar(s[i])]

\* validateSwiftCode with the branch code of any length up to three
validateSwiftCode_AnyLength(code) ==
    /\ Len(code) \in 8..11
    /\ \A i \in 1..6 : IsUpper(code[i])
    /\ \A i \in 7..Len(code) : IsUpper(code[i]) \/ IsDigit(code[i])

\* /^[A-Z]{6}[A-Z0-9]{2}([A-Z0-9]{3})?$/.test(code)
validateSwiftCode(code) ==
    /\ Len(code) \in {8, 11}
    /\ \A i \in 1..6 : IsUpper(code[i])
    /\ \A i \in 7..Len(code) : IsUpper(code[i]) \/ IsDigit(code[i])

RECURSIVE DigitPrefix(_)
DigitPrefix(s) ==
    IF s # <<>> /\ IsDigit(Head(s)) THEN <<Head(s)>> \o DigitPrefix(Tail(s)) ELSE <<>>

RECURSIVE StripLeadingZeros(_)
StripLeadingZeros(d) ==
    IF d # <<>> /\ Head(d) = "0" THEN StripLeadingZeros(Tail(d)) ELSE d

RECURSIVE StripTrailingZeros(_)
StripTrailingZeros(d) ==
    IF d # <<>> /\ d[Len(d)] = "0"
    THEN StripTrailingZeros(SubSeq(d, 1, Len(d) - 1)) ELSE d

Drop(s, n) == SubSeq(s, n + 1, Len(s))
StartsWith(s, p) == Len(s) >= Len(p) /\ SubSeq(s, 1, Len(p)) = p

InfinityWord == <<"I", "n", "f", "i", "n", "i", "t", "y">>
NaN == [kind |-> "nan", neg |-> FALSE, int |-> <<>>, frac |-> <<>>]

\* parseFloat: leading white space, a sign, then "Infinity" or the longest
\* decimal literal; what follows the literal is ignored. The value is kept as
\* its digits (no inputs of the model carry an exponent part).
ParseUnsigned(neg, s) ==
    LET ip == DigitPrefix(s)
        r1 == Drop(s, Len(ip))
        fp == IF r1 # <<>> /\ Head(r1) = "." THEN DigitPrefix(Tail(r1)) ELSE <<>>
    IN  IF StartsWith(s, InfinityWord)
        THEN [kind |-> "inf", neg |-> neg, int |-> <<>>, frac |-> <<>>]
        ELSE IF ip = <<>> /\ fp = <<>> THEN NaN
        ELSE [kind |-> "num", neg |-> neg,
              int |-> StripLeadingZeros(ip), frac |-> StripTrailingZeros(fp)]

parseFloat(v) ==
    IF v.t # "string" THEN NaN
    ELSE LET s == TrimStart(v.s)
         IN  IF s # <<>> /\ Head(s) = "-" THEN ParseUnsigned(TRUE, Tail(s))
             ELSE IF s # <<>> /\ Head(s) = "+" THEN ParseUnsigned(FALSE, Tail(s))
             ELSE ParseUnsigned(FALSE, s)

isNaN(x) == x.kind = "nan"
IsZero(x) == x.kind = "num" /\ x.int = <<>> /\ x.frac = <<>>
\* parsedAmount <= 0
LeqZero(x) == x.kind # "nan" /\ (x.neg \/ IsZero(x))

(***************************************************************************)
(* Session tokens (jsonwebtoken) and the bearer-token middleware.           *)
(* A token is its payload together with the key it was signed with; a       *)
(* token that is not structurally a JWT has wf = FALSE.                     *)
(***************************************************************************)
TTL_1H == 3600
TTL_24H == 86400

FallbackTest == <<"t", "e", "s", "t">>
FallbackDefault == <<"y", "o", "u", "r", "-", "s", "e", "c", "r", "e", "t", "-",
                     "k", "e", "y", "-", "c", "h", "a", "n", "g", "e", "-", "i",
                     "n", "-", "p", "r", "o", "d", "u", "c", "t", "i", "o", "n">>
EnvSecretValue == <<"s", "3", "c", "r", "3", "t">>

Builds == {"logged", "open", "seeded"}

\* process.env.JWT_SECRET || 'test'                               (middleware)
VerifyKey == IF envSecret # <<>> THEN envSecret ELSE FallbackTest

\* process.env.JWT_SECRET || <the fallback of the deployed routes/auth.js>
LoginKey ==
    IF envSecret # <<>> THEN envSecret
    ELSE IF build = "logged" THEN FallbackTest ELSE FallbackDefault

\* { expiresIn: '1h' } in the logged build, '24h' in the other two
LoginTtl == IF build = "logged" THEN TTL_1H ELSE TTL_24H

\* jwt.sign({email, userType}, key, {expiresIn}): iat and exp are in seconds
jwtSign(user, key, ttl, t) ==
    [wf |-> TRUE, email |-> user.email, userType |-> user.userType,
     iat |-> t \div 1000, exp |-> (t \div 1000) + ttl, key |-> key]

GarbageToken ==
    [wf |-> FALSE, email |-> <<>>, userType |-> <<>>, iat |-> 0, exp |-> 0, key |-> <<>>]

NoUser == [email |-> <<>>, userType |-> <<>>]

NoHeader == [scheme |-> "", token |-> GarbageToken]
Bearer(tok) == [scheme |-> "Bearer ", token |-> tok]
BasicHeader(tok) == [scheme |-> "Basic ", token |-> tok]

\* verifyToken with a revocation on logout: a token that its holder dropped
\* is refused
verifyToken_Revoked(authHeader, t) ==
    IF authHeader.scheme # "Bearer "
    THEN [status |-> 401, message |-> Msg("No token provided"), user |-> NoUser]
    ELSE IF \/ ~authHeader.token.wf
            \/ authHeader.token.key # VerifyKey
            \/ authHeader.token = client.dropped
    THEN [status |-> 401, message |-> Msg("Invalid token"), user |-> NoUser]
    ELSE IF t \div 1000 >= authHeader.token.exp
    THEN [status |-> 401, message |-> Msg("Token expired"), user |-> NoUser]
    ELSE [status |-> 200, message |-> Msg(""),
          user |-> [email |-> authHeader.token.email,
                    userType |-> authHeader.token.userType]]

\* verifyToken looking at the token first and at the scheme last
verifyToken_SchemeLast(authHeader, t) ==
    IF ~authHeader.token.wf \/ authHeader.token.key # VerifyKey
    THEN [status |-> 401, message |-> Msg("Invalid token"), user |-> NoUser]
    ELSE IF t \div 1000 >= authHeader.token.exp
    THEN [status |-> 401, message |-> Msg("Token expired"), user |-> NoUser]
    ELSE IF authHeader.scheme # "Bearer "
    THEN [status |-> 401, message |-> Msg("No token provided"), user |-> NoUser]
    ELSE [status |-> 200, message |-> Msg(""),
          user |-> [email |-> authHeader.token.email,
                    userType |-> authHeader.token.userType]]

\* export const verifyToken = (req, res, next) => ...
\* the outcome: status 200 stands for next() with req.user attached
verifyToken(authHeader, t) ==
    IF authHeader.scheme # "Bearer "
    THEN [status |-> 401, message |-> Msg("No token provided"), user |-> NoUser]
    ELSE IF ~authHeader.token.wf \/ authHeader.token.key # VerifyKey
    THEN [status |-> 401, message |-> Msg("Invalid token"), user |-> NoUser]
    ELSE IF t \div 1000 >= authHeader.token.exp
    THEN [status |-> 401, message |-> Msg("Token expired"), user |-> NoUser]
    ELSE [status |-> 200, message |-> Msg(""),
          user |-> [email |-> authHeader.token.email,
                    userType |-> authHeader.token.userType]]

\* requireUserType letting every authenticated user through
requireUserType_AnyRole(allowedTypes, reqUser) ==
    IF reqUser = <<>>
    THEN [status |-> 401, message |-> Msg("Authentication required")]
    ELSE [status |-> 200, message |-> Msg("")]

\* export const requireUserType = (allowedTypes) => (req, res, next) => ...
\* reqUser is req.user as a sequence of zero or one; status 200 stands for next()
requireUserType(allowedTypes, reqUser) ==
    IF reqUser = <<>>
    THEN [status |-> 401, message |-> Msg("Authentication required")]
    ELSE IF reqUser[1].userType \notin allowedTypes
    THEN [status |-> 403, message |-> Msg("Insufficient permissions")]
    ELSE [status |-> 200, message |-> Msg("")]

\* what decoded.email / decoded.userType is when the payload has no such claim
Missing == <<"undefined">>

\* a key that is not the key of this process
ForgerKey == <<"f", "o", "r", "g", "e", "d">>

\* the payload of tok signed with another key
Forged(tok) == [tok EXCEPT !.key = ForgerKey]

LowerBearer(tok) == [scheme |-> "bearer ", token |-> tok]

(***************************************************************************)
(* The transaction ledger (routes/payments.js).                             *)
(* transactions is the Map's entries in insertion order; Map.set on a key   *)
(* that is present replaces the value and keeps the entry's position.       *)
(* A transactionId `TXN${Date.now()}${random}` is the pair of its parts     *)
(* (Date.now() has a fixed number of digits, so the pair determines the     *)
(* string and the string the pair).                                         *)
(***************************************************************************)
Keys(m) == {m[i].transactionId : i \in DOMAIN m}

\* Map.prototype.get
MapGet(m, key) == SelectSeq(m, LAMBDA r : r.transactionId = key)

\* transactions.set(transactionId, transaction)
MapSet(m, txn) ==
    IF txn.transactionId \in Keys(m)
    THEN [i \in DOMAIN m |-> IF m[i].transactionId = txn.transactionId THEN txn ELSE m[i]]
    ELSE Append(m, txn)

Reject(status, text) == [status |-> status, message |-> Msg(text), txn |-> <<>>]

\* processPayment checking the recipient name before the amount
processPayment_NameFirst(user, body, ms, rnd, ts) ==
    IF \/ body.recipientName.t # "string"
       \/ body.recipientAccount.t # "string"
       \/ body.swiftCode.t # "string"
    THEN Reject(500, "Payment processing failed")
    ELSE LET recipientName == sanitizeInput(body.recipientName.s)
             recipientAccount == sanitizeInput(body.recipientAccount.s)
             swiftCode == sanitizeInput(ToUpperCase(body.swiftCode.s))
             parsedAmount == parseFloat(body.amount)
         IN  IF Len(recipientName) < 2
             THEN Reject(400, "Invalid recipient name")
             ELSE IF isNaN(parsedAmount) \/ LeqZero(parsedAmount)
             THEN Reject(400, "Invalid amount")
             ELSE IF Len(recipientAccount) < 5
             THEN Reject(400, "Invalid recipient account number")
             ELSE IF ~validateSwiftCode(swiftCode)
             THEN Reject(400, "Invalid SWIFT/BIC code format")
             ELSE [status |-> 200, message |-> Msg("Payment processed successfully"),
                   txn |-> << [transactionId |-> <<ms, rnd>>,
                               amount |-> parsedAmount,
                               recipientName |-> recipientName,
                               recipientAccount |-> recipientAccount,
                               swiftCode |-> swiftCode,
                               initiatedBy |-> user.email,
                               userType |-> user.userType,
                               status |-> "completed",
                               timestamp |-> ts] >>]

\* processPayment storing the record before it validates the recipient name
processPayment_StoreFirst(user, body, ms, rnd, ts) ==
    IF \/ body.recipientName.t # "string"
       \/ body.recipientAccount.t # "string"
       \/ body.swiftCode.t # "string"
    THEN Reject(500, "Payment processing failed")
    ELSE LET recipientName == sanitizeInput(body.recipientName.s)
             recipientAccount == sanitizeInput(body.recipientAccount.s)
             swiftCode == sanitizeInput(ToUpperCase(body.swiftCode.s))
             parsedAmount == parseFloat(body.amount)
             txn == << [transactionId |-> <<ms, rnd>>,
                        amount |-> parsedAmount,
                        recipientName |-> recipientName,
                        recipientAccount |-> recipientAccount,
                        swiftCode |-> swiftCode,
                        initiatedBy |-> user.email,
                        userType |-> user.userType,
                        status |-> "completed",
                        timestamp |-> ts] >>
         IN  IF isNaN(parsedAmount) \/ LeqZero(parsedAmount)
             THEN Reject(400, "Invalid amount")
             ELSE IF Len(recipientName) < 2
             THEN [status |-> 400, message |-> Msg("Invalid recipient name"),
                   txn |-> txn]
             ELSE IF Len(recipientAccount) < 5
             THEN Reject(400, "Invalid recipient account number")
             ELSE IF ~validateSwiftCode(swiftCode)
             THEN Reject(400, "Invalid SWIFT/BIC code format")
             ELSE [status |-> 200, message |-> Msg("Payment processed successfully"),
                   txn |-> txn]

\* processPayment measuring the name and the account as they were sent
processPayment_RawLength(user, body, ms, rnd, ts) ==
    IF \/ body.recipientName.t # "string"
       \/ body.recipientAccount.t # "string"
       \/ body.swiftCode.t # "string"
    THEN Reject(500, "Payment processing failed")
    ELSE LET recipientName == sanitizeInput(body.recipientName.s)
             recipientAccount == sanitizeInput(body.recipientAccount.s)
             swiftCode == sanitizeInput(ToUpperCase(body.swiftCode.s))
             parsedAmount == parseFloat(body.amount)
         IN  IF isNaN(parsedAmount) \/ LeqZero(parsedAmount)
             THEN Reject(400, "Invalid amount")
             ELSE IF Len(body.recipientName.s) < 2
             THEN Reject(400, "Invalid recipient name")
             ELSE IF Len(body.recipientAccount.s) < 5
             THEN Reject(400, "Invalid recipient account number")
             ELSE IF ~validateSwiftCode(swiftCode)
             THEN Reject(400, "Invalid SWIFT/BIC code format")
             ELSE [status |-> 200, message |-> Msg("Payment processed successfully"),
                   txn |-> << [transactionId |-> <<ms, rnd>>,
                               amount |-> parsedAmount,
                               recipientName |-> recipientName,
                               recipientAccount |-> recipientAccount,
                               swiftCode |-> swiftCode,
                               initiatedBy |-> user.email,
                               userType |-> user.userType,
                               status |-> "completed",
                               timestamp |-> ts] >>]

\* router.post('/process'): the body of the handler once verifyToken has
\* attached user; ms is Date.now() of line 64, ts is new Date() of line 76
processPayment(user, body, ms, rnd, ts) ==
    IF \/ body.recipientName.t # "string"
       \/ body.recipientAccount.t # "string"
       \/ body.swiftCode.t # "string"
    THEN Reject(500, "Payment processing failed")
    ELSE LET recipientName == sanitizeInput(body.recipientName.s)
             recipientAccount == sanitizeInput(body.recipientAccount.s)
             swiftCode == sanitizeInput(ToUpperCase(body.swiftCode.s))
             parsedAmount == parseFloat(body.amount)
         IN  IF isNaN(parsedAmount) \/ LeqZero(parsedAmount)
             THEN Reject(400, "Invalid amount")
             ELSE IF Len(recipientName) < 2
             THEN Reject(400, "Invalid recipient name")
             ELSE IF Len(recipientAccount) < 5
             THEN Reject(400, "Invalid recipient account number")
             ELSE IF ~validateSwiftCode(swiftCode)
             THEN Reject(400, "Invalid SWIFT/BIC code format")
             ELSE [status |-> 200, message |-> Msg("Payment processed successfully"),
                   txn |-> << [transactionId |-> <<ms, rnd>>,
                               amount |-> parsedAmount,
                               recipientName |-> recipientName,
                               recipientAccount |-> recipientAccount,
                               swiftCode |-> swiftCode,
                               initiatedBy |-> user.email,
                               userType |-> user.userType,
                               status |-> "completed",
                               timestamp |-> ts] >>]

\* JSON.stringify of a number, as res.json sends it: a finite number is
\* written out, Infinity and NaN become null
Null == [kind |-> "null", neg |-> FALSE, int |-> <<>>, frac |-> <<>>]
JsonNumber(x) == IF x.kind = "num" THEN x ELSE Null

\* the transaction object of the /process response, as the client receives it
Summary(txn) ==
    [transactionId |-> txn.transactionId, amount |-> JsonNumber(txn.amount),
     recipientName |-> txn.recipientName, status |-> txn.status,
     timestamp |-> txn.timestamp]

\* SortInsert putting a record before the records of its own timestamp
SortInsert_TiesFirst(sorted, r) ==
    LET k == Cardinality({i \in DOMAIN sorted : sorted[i].timestamp > r.timestamp})
    IN  SubSeq(sorted, 1, k) \o <<r>> \o SubSeq(sorted, k + 1, Len(sorted))

\* .sort((a, b) => b.timestamp - a.timestamp): Array.prototype.sort is stable
SortInsert(sorted, r) ==
    LET k == Cardinality({i \in DOMAIN sorted : sorted[i].timestamp >= r.timestamp})
    IN  SubSeq(sorted, 1, k) \o <<r>> \o SubSeq(sorted, k + 1, Len(sorted))

RECURSIVE SortByTimestampDesc(_)
SortByTimestampDesc(s) ==
    IF s = <<>> THEN <<>>
    ELSE SortInsert(SortByTimestampDesc(SubSeq(s, 1, Len(s) - 1)), s[Len(s)])

\* userTransactions without its filter: every owner's records are listed
userTransactions_NoFilter(m, user) == SortByTimestampDesc(m)

\* router.get('/history'): Array.from(transactions.values()).filter(..).sort(..)
userTransactions(m, user) ==
    SortByTimestampDesc(SelectSeq(m, LAMBDA txn : txn.initiatedBy = user.email))

\* getTransaction with the ownership check folded into the lookup: a record of
\* somebody else is reported as absent
getTransaction_OwnerLookup(m, user, transactionId) ==
    LET found == SelectSeq(m, LAMBDA r : r.transactionId = transactionId
                                           /\ r.initiatedBy = user.email)
    IN  IF found = <<>>
        THEN [status |-> 404, message |-> Msg("Transaction not found"), body |-> <<>>]
        ELSE [status |-> 200, message |-> Msg(""), body |-> found]

\* router.get('/:transactionId'): existence, then ownership
getTransaction(m, user, transactionId) ==
    LET found == MapGet(m, transactionId)
    IN  IF found = <<>>
        THEN [status |-> 404, message |-> Msg("Transaction not found"), body |-> <<>>]
        ELSE IF found[1].initiatedBy # user.email
        THEN [status |-> 403, message |-> Msg("Unauthorized access"), body |-> <<>>]
        ELSE [status |-> 200, message |-> Msg(""), body |-> found]

(***************************************************************************)
(* The credential store and the auth routes (routes/auth.js).               *)
(* bcrypt.hash draws a salt and embeds it in the digest; bcrypt.compare     *)
(* recomputes the digest of the candidate under the embedded salt.          *)
(***************************************************************************)
EMPLOYEE_EMAIL == <<"e", "m", "p", "l", "o", "y", "e", "e", "@", "c", "o", "m",
                    "p", "a", "n", "y", ".", "c", "o", "m">>
CUSTOMER_EMAIL == <<"c", "u", "s", "t", "o", "m", "e", "r", "@", "e", "x", "a",
                    "m", "p", "l", "e", ".", "c", "o", "m">>
EMPLOYEE_PASS == <<"E", "m", "p", "l", "o", "y", "e", "e", "1", "2", "3", "!">>
CUSTOMER_PASS == <<"C", "u", "s", "t", "o", "m", "e", "r", "P", "a", "s", "s", "1", "!">>
CUSTOMER == <<"c", "u", "s", "t", "o", "m", "e", "r">>
EMPLOYEE == <<"e", "m", "p", "l", "o", "y", "e", "e">>

bcryptHash(password, salt) == [plain |-> password, salt |-> salt]
bcryptCompare(password, digest) == bcryptHash(password, digest.salt) = digest

IsLetter(c) == IsLower(c) \/ IsUpper(c)
LocalSpecials ==
    {"!", "#", "$", "%", "&", "'", "*", "+", "-", "/", "=", "?", "^", "_",
     Backtick, "{", "|", "}", "~"}

Positions(s, c) == {i \in DOMAIN s : s[i] = c}
Max(S) == CHOOSE x \in S : \A y \in S : y <= x

\* the parts of s between the occurrences of c
RECURSIVE Split(_, _)
Split(s, c) ==
    IF Positions(s, c) = {} THEN <<s>>
    ELSE LET k == Max(Positions(s, c))
         IN  Append(Split(SubSeq(s, 1, k - 1), c), Drop(s, k))

\* validator.isEmail with its default options: user@domain, the user part
\* dot-separated atoms, the domain a fully qualified name with a letter TLD
isEmail(s) ==
    /\ Positions(s, "@") # {}
    /\ LET at == Max(Positions(s, "@"))
           user == SubSeq(s, 1, at - 1)
           domain == Drop(s, at)
           atoms == Split(user, ".")
           labels == Split(domain, ".")
       IN  /\ user # <<>>
           /\ \A i \in DOMAIN atoms :
                /\ atoms[i] # <<>>
                /\ \A j \in DOMAIN atoms[i] :
                     LET c == atoms[i][j]
                     IN  IsLetter(c) \/ IsDigit(c) \/ c \in LocalSpecials
           /\ Len(labels) >= 2
           /\ \A i \in DOMAIN labels :
                /\ labels[i] # <<>>
                /\ labels[i][1] # "-" /\ labels[i][Len(labels[i])] # "-"
                /\ \A j \in DOMAIN labels[i] :
                     LET c == labels[i][j]
                     IN  IsLetter(c) \/ IsDigit(c) \/ c = "-"
           /\ LET tld == labels[Len(labels)]
              IN  Len(tld) >= 2 /\ \A j \in DOMAIN tld : IsLetter(tld[j])

\* const validateEmail = (email) => validator.isEmail(email)
validateEmail(email) == isEmail(email)

PasswordSpecials ==
    {"!", "@", "#", "$", "%", "^", "&", "*", "(", ")", ",", ".", "?", "\"",
     ":", "{", "}", "|", "<", ">"}

\* const validatePassword = (password) => ...
validatePassword(password) ==
    /\ Len(password) >= 8
    /\ \E i \in DOMAIN password : IsUpper(password[i])
    /\ \E i \in DOMAIN password : IsLower(password[i])
    /\ \E i \in DOMAIN password : IsDigit(password[i])
    /\ \E i \in DOMAIN password : password[i] \in PasswordSpecials

\* users.set(email, {email, password, userType, createdAt})
UsersSet(m, email, digest, userType, t) ==
    [e \in DOMAIN m \cup {email} |->
        IF e = email
        THEN [email |-> email, password |-> digest, userType |-> userType,
              createdAt |-> t]
        ELSE m[e]]

NoToken == GarbageToken
AuthReply(status, message) ==
    [status |-> status, message |-> message, token |-> NoToken, user |-> NoUser,
     await |-> FALSE]
AuthAwait ==
    [status |-> 0, message |-> Msg(""), token |-> NoToken, user |-> NoUser,
     await |-> TRUE]

\* loginLookup comparing the stored role with the userType as it was sent
loginLookup_RawUserType(m, body) ==
    IF body.email.t # "string" \/ body.userType.t # "string"
    THEN AuthReply(500, Msg("Login failed"))
    ELSE LET email == sanitizeInput(body.email.s)
         IN  IF ~validateEmail(email)
             THEN AuthReply(400, Msg("Invalid email format"))
             ELSE IF email \notin DOMAIN m
             THEN AuthReply(401, Msg("Invalid credentials"))
             ELSE IF m[email].userType # body.userType.s
             THEN AuthReply(401, MsgWith("This account is registered for ${user.userType} portal",
                                         m[email].userType))
             ELSE AuthAwait

\* router.post('/login'), up to await bcrypt.compare; await = TRUE when the
\* handler reached it (found is then the user object it holds)
loginLookup(m, body) ==
    IF body.email.t # "string" \/ body.userType.t # "string"
    THEN AuthReply(500, Msg("Login failed"))
    ELSE LET email == sanitizeInput(body.email.s)
             userType == sanitizeInput(body.userType.s)
         IN  IF ~validateEmail(email)
             THEN AuthReply(400, Msg("Invalid email format"))
             ELSE IF email \notin DOMAIN m
             THEN AuthReply(401, Msg("Invalid credentials"))
             ELSE IF m[email].userType # userType
             THEN AuthReply(401, MsgWith("This account is registered for ${user.userType} portal",
                                         m[email].userType))
             ELSE AuthAwait

\* loginFinish signing a payload whose userType is a fixed role
loginFinish_FixedRole(user, password, key, ttl, t) ==
    IF password.t # "string"
    THEN AuthReply(500, Msg("Login failed"))
    ELSE IF ~bcryptCompare(password.s, user.password)
    THEN AuthReply(401, Msg("Invalid credentials"))
    ELSE [status |-> 200, message |-> Msg("Login successful"),
          token |-> jwtSign([email |-> user.email, userType |-> CUSTOMER],
                            key, ttl, t),
          user |-> [email |-> user.email, userType |-> user.userType],
          await |-> FALSE]

\* loginFinish signing a token without looking at the result of bcrypt.compare
loginFinish_AnyPassword(user, password, key, ttl, t) ==
    IF password.t # "string"
    THEN AuthReply(500, Msg("Login failed"))
    ELSE [status |-> 200, message |-> Msg("Login successful"),
          token |-> jwtSign([email |-> user.email, userType |-> user.userType],
                            key, ttl, t),
          user |-> [email |-> user.email, userType |-> user.userType],
          await |-> FALSE]

\* router.post('/login'), from the resumption after await bcrypt.compare
loginFinish(user, password, key, ttl, t) ==
    IF password.t # "string"
    THEN AuthReply(500, Msg("Login failed"))
    ELSE IF ~bcryptCompare(password.s, user.password)
    THEN AuthReply(401, Msg("Invalid credentials"))
    ELSE [status |-> 200, message |-> Msg("Login successful"),
          token |-> jwtSign([email |-> user.email, userType |-> user.userType],
                            key, ttl, t),
          user |-> [email |-> user.email, userType |-> user.userType],
          await |-> FALSE]

\* registerCheck without the password policy
registerCheck_NoPolicy(m, body) ==
    IF body.email.t # "string" \/ body.userType.t # "string"
    THEN AuthReply(500, Msg("Registration failed"))
    ELSE LET email == sanitizeInput(body.email.s)
             userType == sanitizeInput(body.userType.s)
         IN  IF ~validateEmail(email)
             THEN AuthReply(400, Msg("Invalid email format"))
             ELSE IF body.password.t # "string"
             THEN AuthReply(500, Msg("Registration failed"))
             ELSE IF email \in DOMAIN m
             THEN AuthReply(400, Msg("User already exists"))
             ELSE IF userType \notin {CUSTOMER, EMPLOYEE}
             THEN AuthReply(400, Msg("Invalid user type"))
             ELSE AuthAwait

\* registerCheck without the check of the user type
registerCheck_AnyRole(m, body) ==
    IF body.email.t # "string" \/ body.userType.t # "string"
    THEN AuthReply(500, Msg("Registration failed"))
    ELSE LET email == sanitizeInput(body.email.s)
         IN  IF ~validateEmail(email)
             THEN AuthReply(400, Msg("Invalid email format"))
             ELSE IF body.password.t # "string"
             THEN AuthReply(500, Msg("Registration failed"))
             ELSE IF ~validatePassword(body.password.s)
             THEN AuthReply(400, Msg("Password must be 8+ characters with uppercase, lowercase, number, and special character"))
             ELSE IF email \in DOMAIN m
             THEN AuthReply(400, Msg("User already exists"))
             ELSE AuthAwait

\* router.post('/register') of the open build, up to await bcrypt.hash
registerCheck(m, body) ==
    IF body.email.t # "string" \/ body.userType.t # "string"
    THEN AuthReply(500, Msg("Registration failed"))
    ELSE LET email == sanitizeInput(body.email.s)
             userType == sanitizeInput(body.userType.s)
         IN  IF ~validateEmail(email)
             THEN AuthReply(400, Msg("Invalid email format"))
             ELSE IF body.password.t # "string"
             THEN AuthReply(500, Msg("Registration failed"))
             ELSE IF ~validatePassword(body.password.s)
             THEN AuthReply(400, Msg("Password must be 8+ characters with uppercase, lowercase, number, and special character"))
             ELSE IF email \in DOMAIN m
             THEN AuthReply(400, Msg("User already exists"))
             ELSE IF userType \notin {CUSTOMER, EMPLOYEE}
             THEN AuthReply(400, Msg("Invalid user type"))
             ELSE AuthAwait

\* router.post('/register') of the logged and seeded builds
registerDisabled ==
    AuthReply(403, Msg("Registration feature is currently unavailable. Coming Soon!"))

(***************************************************************************)
(* Requests. Every handler step records the response it sent in resp; a     *)
(* step that sends none (a handler suspending at an await, the seeding, the *)
(* clock) records NoResp.                                                   *)
(***************************************************************************)
\* App.jsx: useState(false) for isLoggedIn and loading, useState('') for the
\* token; dropped remembers the token that the last handleLogout cleared
NoSession ==
    [isLoggedIn |-> FALSE, token |-> NoToken, dropped |-> NoToken, loading |-> FALSE]

NoReq == [kind |-> "none"]
NoResp ==
    [op |-> "none", req |-> NoReq, status |-> 0, message |-> Msg(""),
     user |-> NoUser, token |-> NoToken, body |-> <<>>, found |-> <<>>]

\* the clock at the start of the process's life, and a later instant at which
\* a token issued at the start has expired under either expiry
ProcessStart == 0
ClockStart == (TTL_24H + TTL_1H) * 1000

\* the salts bcrypt.hash may draw (nothing modelled here compares two digests
\* of one password, so one value stands for the draw)
SeedSalt == "salt1"
SaltInputs == {"salt1"}

CustomerUser == [email |-> CUSTOMER_EMAIL, userType |-> CUSTOMER]
EmployeeUser == [email |-> EMPLOYEE_EMAIL, userType |-> EMPLOYEE]

\* s with a blank before and after
Padded(s) == <<" ">> \o s \o <<" ">>

Amount1250 == <<"1", "2", ".", "5", "0">>
AmountNeg5 == <<"-", "5">>
NameBo == <<"B", "o">>
NameB == <<"B">>
Account8 == <<"0", "0", "0", "1", "2", "3", "4", "5">>
SwiftLower == <<"a", "b", "c", "d", "u", "s", "3", "3">>

RandInputs == {"K3J9Q0ZXA", "7TT1MB2CD"}
UnknownId == <<ProcessStart, "K3J9Q0ZXA">>

PaymentBody(amount, recipientName, recipientAccount, swiftCode) ==
    [amount |-> amount, recipientName |-> recipientName,
     recipientAccount |-> recipientAccount, swiftCode |-> swiftCode]

\* a valid request, one with a bad amount, one with a bad name and one that
\* leaves the account out
PaymentBodies ==
    {PaymentBody(Str(Amount1250), Str(NameBo), Str(Account8), Str(SwiftLower)),
     PaymentBody(Str(AmountNeg5), Str(NameBo), Str(Account8), Str(SwiftLower)),
     PaymentBody(Str(Amount1250), Str(NameB), Str(Account8), Str(SwiftLower)),
     PaymentBody(Str(Amount1250), Str(NameBo), Undefined, Str(SwiftLower))}

HeaderInputs ==
    {NoHeader}
        \cup {Bearer(tok) : tok \in issued}

\* ProcessRequest with the handler mounted without verifyToken: it takes the
\* claims of whatever token the header carries
ProcessRequest_Unguarded(authHeader, body, rnd, d) ==
    LET user == [email |-> authHeader.token.email,
                 userType |-> authHeader.token.userType]
        out == processPayment(user, body, now, rnd, now + d)
        stored == out.txn # <<>>
    IN  /\ stored => Len(okIds) < MaxTxns /\ now + d <= ClockStart + MaxElapsed
        /\ ~stored => d = 0
        /\ transactions' = IF stored THEN MapSet(transactions, out.txn[1])
                           ELSE transactions
        /\ okIds' = IF stored THEN Append(okIds, out.txn[1].transactionId)
                    ELSE okIds
        /\ now' = now + d
        /\ resp' = [op |-> "process",
                    req |-> [kind |-> "process", authHeader |-> authHeader,
                             body |-> body],
                    status |-> out.status, message |-> out.message,
                    user |-> user, token |-> NoToken,
                    body |-> IF stored THEN <<Summary(out.txn[1])>> ELSE <<>>,
                    found |-> <<>>]
        /\ UNCHANGED <<client, build, envSecret, users, accountsSeeded, seedPc,
                       pending, issued>>

\* POST /api/payments/process for one request: verifyToken, then the handler.
\* The handler reads the clock twice (Date.now(), new Date()); d is what
\* passes between.
ProcessRequest(authHeader, body, rnd, d) ==
    LET auth == verifyToken(authHeader, now)
        out == IF auth.status = 200
               THEN processPayment(auth.user, body, now, rnd, now + d)
               ELSE [status |-> auth.status, message |-> auth.message, txn |-> <<>>]
        stored == out.txn # <<>>
    IN  /\ stored => Len(okIds) < MaxTxns /\ now + d <= ClockStart + MaxElapsed
        /\ ~stored => d = 0
        /\ transactions' = IF stored THEN MapSet(transactions, out.txn[1])
                           ELSE transactions
        /\ okIds' = IF stored THEN Append(okIds, out.txn[1].transactionId)
                    ELSE okIds
        /\ now' = now + d
        /\ resp' = [op |-> "process",
                    req |-> [kind |-> "process", authHeader |-> authHeader,
                             body |-> body],
                    status |-> out.status, message |-> out.message,
                    user |-> auth.user, token |-> NoToken,
                    body |-> IF stored THEN <<Summary(out.txn[1])>> ELSE <<>>,
                    found |-> <<>>]
        /\ UNCHANGED <<client, build, envSecret, users, accountsSeeded, seedPc,
                       pending, issued>>

Process ==
    \E authHeader \in HeaderInputs, body \in PaymentBodies, rnd \in RandInputs,
       d \in 0..1 :
        ProcessRequest(authHeader, body, rnd, d)

\* history as a live cursor: the records it returns are taken off the ledger
History_Cursor ==
    \E authHeader \in HeaderInputs :
        LET auth == verifyToken(authHeader, now)
        IN  /\ resp' = [op |-> "history",
                        req |-> [kind |-> "history", authHeader |-> authHeader],
                        status |-> auth.status, message |-> auth.message,
                        user |-> auth.user, token |-> NoToken,
                        body |-> IF auth.status = 200
                                 THEN userTransactions(transactions, auth.user)
                                 ELSE <<>>,
                        found |-> <<>>]
            /\ transactions' = IF auth.status = 200
                               THEN SelectSeq(transactions,
                                              LAMBDA r : r.initiatedBy # auth.user.email)
                               ELSE transactions
            /\ UNCHANGED <<client, build, envSecret, users, accountsSeeded, seedPc,
                           pending, issued, okIds, now>>

\* GET /api/payments/history
History ==
    \E authHeader \in HeaderInputs :
        LET auth == verifyToken(authHeader, now)
        IN  /\ resp' = [op |-> "history",
                        req |-> [kind |-> "history", authHeader |-> authHeader],
                        status |-> auth.status, message |-> auth.message,
                        user |-> auth.user, token |-> NoToken,
                        body |-> IF auth.status = 200
                                 THEN userTransactions(transactions, auth.user)
                                 ELSE <<>>,
                        found |-> <<>>]
            /\ UNCHANGED <<client, build, envSecret, users, accountsSeeded, seedPc,
                           pending, issued, transactions, okIds, now>>

\* GET /api/payments/:transactionId
GetById ==
    \E authHeader \in HeaderInputs,
       transactionId \in Keys(transactions) \cup {UnknownId} :
        LET auth == verifyToken(authHeader, now)
            out == IF auth.status = 200
                   THEN getTransaction(transactions, auth.user, transactionId)
                   ELSE [status |-> auth.status, message |-> auth.message,
                         body |-> <<>>]
        IN  /\ resp' = [op |-> "getById",
                        req |-> [kind |-> "getById", authHeader |-> authHeader,
                                 transactionId |-> transactionId],
                        status |-> out.status, message |-> out.message,
                        user |-> auth.user, token |-> NoToken,
                        body |-> out.body, found |-> <<>>]
            /\ UNCHANGED <<client, build, envSecret, users, accountsSeeded, seedPc,
                           pending, issued, transactions, okIds, now>>

\* a millisecond passes
Tick ==
    /\ now < ClockStart + MaxElapsed
    /\ now' = now + 1
    /\ resp' = NoResp
    /\ UNCHANGED <<client, build, envSecret, users, accountsSeeded, seedPc, pending,
                   issued, transactions, okIds>>

\* the two fixture principals, as the seeding (or, in the open build, two
\* registrations) at the start of the process's life left them
FixtureUsers ==
    UsersSet(UsersSet(<<>>, EMPLOYEE_EMAIL, bcryptHash(EMPLOYEE_PASS, SeedSalt),
                      EMPLOYEE, ProcessStart),
             CUSTOMER_EMAIL, bcryptHash(CUSTOMER_PASS, SeedSalt), CUSTOMER,
             ProcessStart)

\* The ledger's life in the logged build from an instant at which both fixture
\* principals exist, the customer holds a token from a login at the start
\* (expired by now) and the customer and the employee each hold one from a
\* login just now. (The ledger's code is the same in every build.)
InitLedger ==
    /\ build = "logged"
    /\ envSecret = EnvSecretValue
    /\ users = FixtureUsers
    /\ accountsSeeded = (build = "logged")
    /\ seedPc = IF build = "open" THEN "none" ELSE "done"
    /\ pending = EmptyBag
    /\ issued = {jwtSign(CustomerUser, LoginKey, LoginTtl, ProcessStart),
                 jwtSign(CustomerUser, LoginKey, LoginTtl, ClockStart),
                 jwtSign(EmployeeUser, LoginKey, LoginTtl, ClockStart)}
    /\ transactions = <<>>
    /\ okIds = <<>>
    /\ now = ClockStart
    /\ resp = NoResp
    /\ client = NoSession

NextLedger == Process \/ History \/ GetById \/ Tick

SpecLedger == InitLedger /\ [][NextLedger]_vars

(***************************************************************************)
(* The validation of /process on its own: one request of the customer, its  *)
(* four fields drawn from the inputs below, is received and answered.       *)
(***************************************************************************)
AmountInputs ==
    {Str(Amount1250), Str(AmountNeg5), Undefined,
     Str(<<"0">>), Str(<<"0", ".", "0", "0">>), Str(<<"a", "b", "c">>), Str(<<>>),
     Str(InfinityWord), Str(<<"1", "2", "a", "b", "c">>), Str(<<" ", "7">>),
     Str(<<".", "5">>)}

NameInputs == {Str(NameBo), Str(NameB), Str(Padded(NameB)), Str(<<"<">>)}

AccountInputs ==
    {Str(Account8), Str(<<"1", "2", "3", "4">>), Str(Padded(<<"1", "2">>)),
     Str(<<"'">>)}

SwiftInputs ==
    {Str(SwiftLower), Str(Padded(SwiftLower)),
     Str(<<"A", "B", "C", "D", "U", "S", "3", "3", "X", "X", "X">>),
     Str(<<"A", "B", "C", "D", "U", "S", "3">>),
     Str(<<"A", "B", "C", "D", "U", "S", "3", "3", "X">>),
     Str(<<"a", "b", "c", "d", "u", "s", "3", "3", "x", "x", "9", "z">>),
     Str(<<"A", "B", "C", "1", "U", "S", "3", "3">>),
     Str(<<"A", "B", "C", "D", "U", "S", "3", "<">>)}

ValidateBodies ==
    {PaymentBody(a, n, c, w) :
        a \in AmountInputs, n \in NameInputs, c \in AccountInputs, w \in SwiftInputs}

\* the request in flight is answered
ProcessReceived ==
    /\ resp.op = "none"
    /\ resp.req.kind = "process"
    /\ \E rnd \in RandInputs :
         ProcessRequest(resp.req.authHeader, resp.req.body, rnd, 0)

\* The customer, logged in just now, has sent one request to /process.
InitValidate ==
    /\ build = "logged"
    /\ envSecret = EnvSecretValue
    /\ users = FixtureUsers
    /\ accountsSeeded = (build = "logged")
    /\ seedPc = IF build = "open" THEN "none" ELSE "done"
    /\ pending = EmptyBag
    /\ issued = {jwtSign(CustomerUser, LoginKey, LoginTtl, ClockStart)}
    /\ transactions = <<>>
    /\ okIds = <<>>
    /\ now = ClockStart
    /\ \E body \in ValidateBodies :
         resp = [NoResp EXCEPT
                    !.req = [kind |-> "process",
                             authHeader |-> Bearer(jwtSign(CustomerUser, LoginKey,
                                                           LoginTtl, ClockStart)),
                             body |-> body]]
    /\ client = NoSession

NextValidate == ProcessReceived

SpecValidate == InitValidate /\ [][NextValidate]_vars

(***************************************************************************)
(* The middleware on its own: a route guarded by requireUserType, mounted   *)
(* behind verifyToken or without it, is asked with every kind of            *)
(* Authorization header while the token of an earlier login expires.        *)
(***************************************************************************)
AllowedInputs == {{CUSTOMER}, {EMPLOYEE}, {CUSTOMER, EMPLOYEE}}

\* headers a caller may send: none, another scheme, a lower-case scheme, a
\* string that is no JWT, a token signed with another key, tokens signed with
\* the key of this process whose payload lacks a claim, and the issued tokens
GuardHeaders ==
    {NoHeader, Bearer(GarbageToken),
     Bearer(jwtSign([email |-> Missing, userType |-> CUSTOMER], VerifyKey, TTL_24H, now)),
     Bearer(jwtSign([email |-> CUSTOMER_EMAIL, userType |-> Missing], VerifyKey, TTL_24H, now))}
        \cup {Bearer(tok) : tok \in issued}
        \cup {BasicHeader(tok) : tok \in issued}
        \cup {LowerBearer(tok) : tok \in issued}
        \cup {Bearer(Forged(tok)) : tok \in issued}

\* a request to a route (verifyToken, requireUserType(allowedTypes), handler),
\* or, with verified = FALSE, to one mounted without verifyToken
Guard ==
    \E authHeader \in GuardHeaders, allowedTypes \in AllowedInputs,
       verified \in BOOLEAN :
        LET auth == verifyToken(authHeader, now)
            reqUser == IF verified /\ auth.status = 200 THEN <<auth.user>> ELSE <<>>
            out == IF verified /\ auth.status # 200
                   THEN [status |-> auth.status, message |-> auth.message]
                   ELSE requireUserType(allowedTypes, reqUser)
        IN  /\ resp' = [op |-> "guard",
                        req |-> [kind |-> "guard", authHeader |-> authHeader,
                                 allowedTypes |-> allowedTypes,
                                 verified |-> verified],
                        status |-> out.status, message |-> out.message,
                        user |-> IF reqUser = <<>> THEN NoUser ELSE reqUser[1],
                        token |-> NoToken, body |-> <<>>, found |-> <<>>]
            /\ UNCHANGED <<client, build, envSecret, users, accountsSeeded, seedPc,
                           pending, issued, transactions, okIds, now>>

\* Any build, with JWT_SECRET set or not, one millisecond before the token
\* that login gave the customer expires.
InitToken ==
    /\ build \in Builds
    /\ envSecret \in {<<>>, EnvSecretValue}
    /\ users = FixtureUsers
    /\ accountsSeeded = (build = "logged")
    /\ seedPc = IF build = "open" THEN "none" ELSE "done"
    /\ pending = EmptyBag
    /\ issued = {jwtSign(CustomerUser, LoginKey, LoginTtl,
                         ClockStart - LoginTtl * 1000)}
    /\ transactions = <<>>
    /\ okIds = <<>>
    /\ now = ClockStart - 1
    /\ resp = NoResp
    /\ client = NoSession

NextToken == Process \/ History \/ GetById \/ Tick \/ Guard

SpecToken == InitToken /\ [][NextToken]_vars

(***************************************************************************)
(* The auth routes' actions. A handler that reaches an await is suspended   *)
(* in pending with the request it serves and the user object it holds, and  *)
(* resumes in a later step; other handlers run in between.                  *)
(***************************************************************************)
NOBODY_EMAIL == <<"n", "o", "b", "o", "d", "y", "@", "e", "x", "a", "m", "p",
                  "l", "e", ".", "c", "o", "m">>
NoAtEmail == <<"c", "u", "s", "t", "o", "m", "e", "r">>
WeakPass == <<"p", "a", "s", "s">>
ADMIN == <<"a", "d", "m", "i", "n">>

AuthBody(email, password, userType) ==
    [email |-> email, password |-> password, userType |-> userType]

LoginBodies ==
    {AuthBody(Str(CUSTOMER_EMAIL), Str(CUSTOMER_PASS), Str(CUSTOMER)),
     AuthBody(Str(Padded(CUSTOMER_EMAIL)), Str(CUSTOMER_PASS), Str(Padded(CUSTOMER))),
     AuthBody(Str(CUSTOMER_EMAIL), Str(EMPLOYEE_PASS), Str(CUSTOMER)),
     AuthBody(Str(CUSTOMER_EMAIL), Str(CUSTOMER_PASS), Str(EMPLOYEE)),
     AuthBody(Str(CUSTOMER_EMAIL), Str(EMPLOYEE_PASS), Str(EMPLOYEE)),
     AuthBody(Str(CUSTOMER_EMAIL), Undefined, Str(CUSTOMER)),
     AuthBody(Str(EMPLOYEE_EMAIL), Str(EMPLOYEE_PASS), Str(EMPLOYEE)),
     AuthBody(Str(NOBODY_EMAIL), Str(CUSTOMER_PASS), Str(CUSTOMER)),
     AuthBody(Str(NoAtEmail), Str(CUSTOMER_PASS), Str(CUSTOMER)),
     AuthBody(Undefined, Str(CUSTOMER_PASS), Str(CUSTOMER))}

RegisterBodies ==
    {AuthBody(Str(CUSTOMER_EMAIL), Str(CUSTOMER_PASS), Str(CUSTOMER)),
     AuthBody(Str(Padded(CUSTOMER_EMAIL)), Str(EMPLOYEE_PASS), Str(EMPLOYEE)),
     AuthBody(Str(CUSTOMER_EMAIL), Str(WeakPass), Str(CUSTOMER)),
     AuthBody(Str(CUSTOMER_EMAIL), Str(CUSTOMER_PASS), Str(ADMIN)),
     AuthBody(Str(NoAtEmail), Str(CUSTOMER_PASS), Str(CUSTOMER)),
     AuthBody(Str(CUSTOMER_EMAIL), Str(CUSTOMER_PASS), Undefined)}

Suspended(op, body, user) == [op |-> op, body |-> body, user |-> user]

AuthResp(op, body, out, found) ==
    [op |-> op, req |-> [kind |-> op, body |-> body],
     status |-> out.status, message |-> out.message, user |-> out.user,
     token |-> out.token, body |-> <<>>, found |-> found]

\* users.get(email) for the request's email, as a sequence of zero or one
Lookup(m, body) ==
    IF body.email.t = "string" /\ sanitizeInput(body.email.s) \in DOMAIN m
    THEN <<m[sanitizeInput(body.email.s)]>> ELSE <<>>

\* POST /api/auth/login for one request, until it responds or reaches await
\* bcrypt.compare
LoginRequest(body) ==
    LET out == loginLookup(users, body)
    IN  /\ out.await => BagCardinality(pending) < MaxPending
        /\ pending' = IF out.await
                      THEN pending (+) SetToBag({Suspended("login", body,
                                                           Lookup(users, body))})
                      ELSE pending
        /\ resp' = IF out.await THEN NoResp
                   ELSE AuthResp("login", body, out, Lookup(users, body))
        /\ UNCHANGED <<client, build, envSecret, users, accountsSeeded, seedPc,
                       issued, transactions, okIds, now>>

LoginStart == \E body \in LoginBodies : LoginRequest(body)

\* POST /api/auth/login, resumed with the result of bcrypt.compare
LoginFinish ==
    \E p \in BagToSet(pending) :
        /\ p.op = "login"
        /\ LET out == loginFinish(p.user[1], p.body.password, LoginKey, LoginTtl, now)
           IN  /\ pending' = pending (-) SetToBag({p})
               /\ issued' = IF out.status = 200 THEN issued \cup {out.token}
                            ELSE issued
               /\ resp' = AuthResp("login", p.body, out, p.user)
        /\ UNCHANGED <<client, build, envSecret, users, accountsSeeded, seedPc,
                       transactions, okIds, now>>

\* POST /api/auth/register for one request, until it responds or reaches
\* await bcrypt.hash
RegisterRequest(body) ==
    LET out == IF build = "open" THEN registerCheck(users, body)
               ELSE registerDisabled
    IN  /\ out.await => BagCardinality(pending) < MaxPending
        /\ pending' = IF out.await
                      THEN pending (+) SetToBag({Suspended("register", body, <<>>)})
                      ELSE pending
        /\ resp' = IF out.await THEN NoResp
                   ELSE AuthResp("register", body, out, Lookup(users, body))
        /\ UNCHANGED <<client, build, envSecret, users, accountsSeeded, seedPc,
                       issued, transactions, okIds, now>>

RegisterStart == \E body \in RegisterBodies : RegisterRequest(body)

\* POST /api/auth/register, resumed with the digest: users.set and 201
RegisterFinish ==
    \E p \in BagToSet(pending), salt \in SaltInputs :
        /\ p.op = "register"
        /\ pending' = pending (-) SetToBag({p})
        /\ users' = UsersSet(users, sanitizeInput(p.body.email.s),
                             bcryptHash(p.body.password.s, salt),
                             sanitizeInput(p.body.userType.s), now)
        /\ resp' = AuthResp("register", p.body,
                            AuthReply(201, Msg("User registered successfully")),
                            Lookup(users, p.body))
        /\ UNCHANGED <<client, build, envSecret, accountsSeeded, seedPc, issued,
                       transactions, okIds, now>>

\* the pre-seed IIFE resumed after the first bcrypt.hash
SeedEmployee ==
    \E salt \in SaltInputs :
        /\ seedPc = "hashEmployee"
        /\ users' = UsersSet(users, EMPLOYEE_EMAIL, bcryptHash(EMPLOYEE_PASS, salt),
                             EMPLOYEE, now)
        /\ seedPc' = "hashCustomer"
        /\ resp' = NoResp
        /\ UNCHANGED <<client, build, envSecret, accountsSeeded, pending, issued,
                       transactions, okIds, now>>

\* SeedCustomer starting the seeding body over when it ends
SeedCustomer_Again ==
    \E salt \in SaltInputs :
        /\ seedPc = "hashCustomer"
        /\ users' = UsersSet(users, CUSTOMER_EMAIL, bcryptHash(CUSTOMER_PASS, salt),
                             CUSTOMER, now)
        /\ seedPc' = "hashEmployee"
        /\ resp' = NoResp
        /\ UNCHANGED <<client, build, envSecret, accountsSeeded, pending, issued,
                       transactions, okIds, now>>

\* the pre-seed IIFE resumed after the second bcrypt.hash
SeedCustomer ==
    \E salt \in SaltInputs :
        /\ seedPc = "hashCustomer"
        /\ users' = UsersSet(users, CUSTOMER_EMAIL, bcryptHash(CUSTOMER_PASS, salt),
                             CUSTOMER, now)
        /\ seedPc' = "done"
        /\ resp' = NoResp
        /\ UNCHANGED <<client, build, envSecret, accountsSeeded, pending, issued,
                       transactions, okIds, now>>

\* The process right after its modules were loaded: the logged and seeded
\* builds have run the seeding IIFE up to its first await, the server listens.
InitAuth ==
    /\ build \in Builds
    /\ envSecret \in {<<>>, EnvSecretValue}
    /\ users = <<>>
    /\ accountsSeeded = (build = "logged")
    /\ seedPc = IF build = "open" THEN "none" ELSE "hashEmployee"
    /\ pending = EmptyBag
    /\ issued = {}
    /\ transactions = <<>>
    /\ okIds = <<>>
    /\ now = ProcessStart
    /\ resp = NoResp
    /\ client = NoSession

NextAuth ==
    \/ LoginStart \/ LoginFinish \/ RegisterStart \/ RegisterFinish
    \/ SeedEmployee \/ SeedCustomer

SpecAuth == InitAuth /\ [][NextAuth]_vars

(***************************************************************************)
(* The browser client (App.jsx) next to the auth routes: it keeps the token *)
(* of a login response, presents tokens to a protected route, and logs out  *)
(* without telling the server.                                              *)
(***************************************************************************)
\* handleLogin after await response.json() with response.ok:
\* setToken(data.token); setIsLoggedIn(true); finally setLoading(false)
handleLoginOk ==
    /\ resp.op = "login" /\ resp.status = 200
    /\ client' = [isLoggedIn |-> TRUE, token |-> resp.token,
                  dropped |-> client.dropped, loading |-> FALSE]
    /\ resp' = NoResp
    /\ UNCHANGED <<build, envSecret, users, accountsSeeded, seedPc, pending,
                   issued, transactions, okIds, now>>

\* const handleLogout = () => { setIsLoggedIn(false); setToken(''); ... }:
\* loading is not touched, and a request of the client in flight stays so
handleLogout ==
    /\ client.isLoggedIn
    /\ client' = [isLoggedIn |-> FALSE, token |-> NoToken,
                  dropped |-> client.token, loading |-> client.loading]
    /\ resp' = IF client.loading THEN resp ELSE NoResp
    /\ UNCHANGED <<build, envSecret, users, accountsSeeded, seedPc, pending,
                   issued, transactions, okIds, now>>

\* Any build, with JWT_SECRET set, before any login: the logged and seeded
\* builds have seeded both fixture principals, the open build (which seeds
\* nothing) starts with an empty store.
InitSession ==
    /\ build \in Builds
    /\ envSecret = EnvSecretValue
    /\ users = IF build = "open" THEN <<>> ELSE FixtureUsers
    /\ accountsSeeded = (build = "logged")
    /\ seedPc = IF build = "open" THEN "none" ELSE "done"
    /\ pending = EmptyBag
    /\ issued = {}
    /\ transactions = <<>>
    /\ okIds = <<>>
    /\ now = ClockStart
    /\ resp = NoResp
    /\ client = NoSession

NextSession ==
    \/ LoginStart \/ LoginFinish \/ RegisterStart \/ RegisterFinish
    \/ History \/ handleLoginOk \/ handleLogout

SpecSession == InitSession /\ [][NextSession]_vars

(***************************************************************************)
(* The validating routes on their own: one request to /login, /register or  *)
(* /process, its fields drawn from the inputs below, is received and        *)
(* answered (after its await, for the auth routes).                         *)
(***************************************************************************)
\* a JSON number in the place of a text field
Number5 == [t |-> "number", s |-> <<"5">>]

OBRIEN_EMAIL == <<"o", "'", "b", "@", "e", "x", "a", "m", "p", "l", "e", ".",
                  "c", "o", "m">>
AMPERSAND_EMAIL == <<"a", "&", "b", "@", "e", "x", "a", "m", "p", "l", "e", ".",
                     "c", "o", "m">>

EmailInputs ==
    {Str(CUSTOMER_EMAIL), Str(Padded(CUSTOMER_EMAIL)), Str(NOBODY_EMAIL),
     Str(NoAtEmail), Str(OBRIEN_EMAIL), Str(AMPERSAND_EMAIL), Undefined, Number5}

\* the customer's password, then passwords that fail one clause of the policy
\* each (length, uppercase, lowercase, digit, special character; the
\* underscore is not in the special-character class), the empty one, one that
\* fails several, and a request without a password
PasswordInputs ==
    {Str(CUSTOMER_PASS),
     Str(<<"A", "b", "c", "d", "e", "1", "!">>),
     Str(<<"a", "b", "c", "d", "e", "f", "g", "1", "!">>),
     Str(<<"A", "B", "C", "D", "E", "F", "G", "1", "!">>),
     Str(<<"A", "b", "c", "d", "e", "f", "g", "h", "!">>),
     Str(<<"A", "b", "c", "d", "e", "f", "g", "1", "2">>),
     Str(<<"A", "b", "c", "d", "e", "f", "g", "1", "_">>),
     Str(WeakPass), Str(<<>>), Undefined}

UserTypeInputs ==
    {Str(CUSTOMER), Str(Padded(CUSTOMER)), Str(EMPLOYEE), Str(ADMIN), Undefined,
     Number5}

FormBodies ==
    {AuthBody(e, p, u) : e \in EmailInputs, p \in PasswordInputs, u \in UserTypeInputs}

\* /process requests: a valid one, and ones in which one text field is left
\* out or is a number
FieldBodies ==
    LET good == PaymentBody(Str(Amount1250), Str(NameBo), Str(Account8), Str(SwiftLower))
    IN  {good}
            \cup {[good EXCEPT ![f] = v] :
                     f \in {"recipientName", "recipientAccount", "swiftCode"},
                     v \in {Undefined, Number5}}

\* the login request in flight is handled up to its answer or its await
LoginReceived ==
    /\ resp.op = "none"
    /\ resp.req.kind = "login"
    /\ LoginRequest(resp.req.body)

\* the register request in flight is handled up to its answer or its await
RegisterReceived ==
    /\ resp.op = "none"
    /\ resp.req.kind = "register"
    /\ RegisterRequest(resp.req.body)

\* Any build with both fixture principals in the store; the customer, logged
\* in just now, or somebody without a session has sent one request.
InitRequest ==
    /\ build \in Builds
    /\ envSecret = EnvSecretValue
    /\ users = FixtureUsers
    /\ accountsSeeded = (build = "logged")
    /\ seedPc = IF build = "open" THEN "none" ELSE "done"
    /\ pending = EmptyBag
    /\ issued = {jwtSign(CustomerUser, LoginKey, LoginTtl, ClockStart)}
    /\ transactions = <<>>
    /\ okIds = <<>>
    /\ now = ClockStart
    /\ \/ \E kind \in {"login", "register"}, body \in FormBodies :
            resp = [NoResp EXCEPT !.req = [kind |-> kind, body |-> body]]
       \/ \E body \in FieldBodies :
            resp = [NoResp EXCEPT
                       !.req = [kind |-> "process",
                                authHeader |-> Bearer(jwtSign(CustomerUser, LoginKey,
                                                              LoginTtl, ClockStart)),
                                body |-> body]]
    /\ client = NoSession

NextRequest ==
    \/ LoginReceived \/ LoginFinish \/ RegisterReceived \/ RegisterFinish
    \/ ProcessReceived

SpecRequest == InitRequest /\ [][NextRequest]_vars

(***************************************************************************)
(* The browser client and its own requests: the buttons that start a        *)
(* request are disabled while loading, so the client has one request in     *)
(* flight at most; the request travels in resp.req, is handled by the       *)
(* server, and its response, or a network error, ends the client's handler. *)
(***************************************************************************)
\* the client has no request of its own under way
Idle ==
    /\ ~client.loading
    /\ resp.op = "none"
    /\ resp.req.kind = "none"
    /\ pending = EmptyBag

\* handleLogin up to await fetch: setLoading(true), POST /auth/login
handleLogin ==
    /\ Idle
    /\ ~client.isLoggedIn
    /\ \E body \in {AuthBody(Str(CUSTOMER_EMAIL), Str(CUSTOMER_PASS), Str(CUSTOMER)),
                     AuthBody(Str(EMPLOYEE_EMAIL), Str(EMPLOYEE_PASS), Str(EMPLOYEE)),
                     AuthBody(Str(CUSTOMER_EMAIL), Str(EMPLOYEE_PASS), Str(CUSTOMER))} :
          resp' = [NoResp EXCEPT !.req = [kind |-> "login", body |-> body]]
    /\ client' = [client EXCEPT !.loading = TRUE]
    /\ UNCHANGED <<build, envSecret, users, accountsSeeded, seedPc, pending,
                   issued, transactions, okIds, now>>

\* handleRegister up to await fetch: setLoading(true), POST /auth/register
handleRegister ==
    /\ Idle
    /\ ~client.isLoggedIn
    /\ \E body \in {AuthBody(Str(NOBODY_EMAIL), Str(CUSTOMER_PASS), Str(CUSTOMER)),
                     AuthBody(Str(NOBODY_EMAIL), Str(WeakPass), Str(CUSTOMER))} :
          resp' = [NoResp EXCEPT !.req = [kind |-> "register", body |-> body]]
    /\ client' = [client EXCEPT !.loading = TRUE]
    /\ UNCHANGED <<build, envSecret, users, accountsSeeded, seedPc, pending,
                   issued, transactions, okIds, now>>

\* handlePayment up to await fetch: setLoading(true), POST /payments/process
\* with the token held
handlePayment ==
    /\ Idle
    /\ client.isLoggedIn
    /\ Len(okIds) < MaxTxns
    /\ \E body \in {PaymentBody(Str(Amount1250), Str(NameBo), Str(Account8),
                                 Str(SwiftLower)),
                     PaymentBody(Str(Amount1250), Str(NameB), Str(Account8),
                                 Str(SwiftLower))} :
          resp' = [NoResp EXCEPT
                      !.req = [kind |-> "process",
                               authHeader |-> Bearer(client.token),
                               body |-> body]]
    /\ client' = [client EXCEPT !.loading = TRUE]
    /\ UNCHANGED <<build, envSecret, users, accountsSeeded, seedPc, pending,
                   issued, transactions, okIds, now>>

\* handleLogin whose return on !response.ok skips setLoading(false)
handleLoginFailed_NoFinally ==
    /\ resp.op = "login" /\ resp.status # 200
    /\ resp' = NoResp
    /\ UNCHANGED <<client, build, envSecret, users, accountsSeeded, seedPc,
                   pending, issued, transactions, okIds, now>>

\* handleLogin after await response.json() with !response.ok: setErrors,
\* return; finally setLoading(false)
handleLoginFailed ==
    /\ resp.op = "login" /\ resp.status # 200
    /\ client' = [client EXCEPT !.loading = FALSE]
    /\ resp' = NoResp
    /\ UNCHANGED <<build, envSecret, users, accountsSeeded, seedPc, pending,
                   issued, transactions, okIds, now>>

\* handleRegister after await response.json(), response.ok or not: finally
\* setLoading(false)
handleRegisterDone ==
    /\ resp.op = "register"
    /\ client' = [client EXCEPT !.loading = FALSE]
    /\ resp' = NoResp
    /\ UNCHANGED <<build, envSecret, users, accountsSeeded, seedPc, pending,
                   issued, transactions, okIds, now>>

\* handlePayment after await response.json(), response.ok or not: finally
\* setLoading(false); isLoggedIn and the token are not touched
handlePaymentDone ==
    /\ resp.op = "process"
    /\ client' = [client EXCEPT !.loading = FALSE]
    /\ resp' = NoResp
    /\ UNCHANGED <<build, envSecret, users, accountsSeeded, seedPc, pending,
                   issued, transactions, okIds, now>>

\* the catch of the three handlers: fetch rejects (the request never arrived)
\* or the response is lost or unreadable; setErrors, finally setLoading(false)
networkError ==
    /\ client.loading
    /\ resp.req.kind # "none"
    /\ pending = EmptyBag
    /\ client' = [client EXCEPT !.loading = FALSE]
    /\ resp' = NoResp
    /\ UNCHANGED <<build, envSecret, users, accountsSeeded, seedPc, pending,
                   issued, transactions, okIds, now>>

\* Any build with both fixture principals in the store, the page just loaded.
InitClient ==
    /\ build \in Builds
    /\ envSecret = EnvSecretValue
    /\ users = FixtureUsers
    /\ accountsSeeded = (build = "logged")
    /\ seedPc = IF build = "open" THEN "none" ELSE "done"
    /\ pending = EmptyBag
    /\ issued = {}
    /\ transactions = <<>>
    /\ okIds = <<>>
    /\ now = ClockStart
    /\ resp = NoResp
    /\ client = NoSession

NextClient ==
    \/ handleLogin \/ handleRegister \/ handlePayment \/ handleLogout
    \/ LoginReceived \/ LoginFinish \/ RegisterReceived \/ RegisterFinish
    \/ ProcessReceived
    \/ handleLoginOk \/ handleLoginFailed \/ handleRegisterDone
    \/ handlePaymentDone \/ networkError

\* The server handles every request that has arrived, a suspended handler is
\* resumed, and the event loop runs the continuation of a settled fetch; a
\* network error may or may not occur. The weak fairness of the three
\* receiving actions is written out, with the condition under which they are
\* enabled (a request of the client is in flight) in the place of ENABLED.
SpecClient ==
    /\ InitClient
    /\ [][NextClient]_vars
    /\ \/ []<>~(resp.op = "none" /\ resp.req.kind # "none")
       \/ []<><<LoginReceived \/ RegisterReceived \/ ProcessReceived>>_vars
    /\ WF_vars(LoginFinish \/ RegisterFinish)
    /\ WF_vars(handleLoginOk \/ handleLoginFailed \/ handleRegisterDone
                   \/ handlePaymentDone)

(***************************************************************************)
(* The control flow of the middleware and the handlers: what each sends and *)
(* where it stops. A handler is the statements of its try block and of its  *)
(* catch block that send, call next() or may throw; Express runs the        *)
(* handlers of a route in order, the next one only inside a call of next(). *)
(***************************************************************************)

\* if (c) { return res.status(status).json(...) }
Rejection(status) == [kind |-> "reject", status |-> status, returns |-> TRUE]
\* return res.status(status).json(...) outside any condition
Return(status) == [kind |-> "send", status |-> status, returns |-> TRUE]
\* res.status(status).json(...) as the last statement of its block
Answer(status) == [kind |-> "send", status |-> status, returns |-> FALSE]
\* statements that may throw (a destructuring of req.body, a library call)
Throwing == [kind |-> "throw", status |-> 0, returns |-> FALSE]
CallNext == [kind |-> "next", status |-> 0, returns |-> FALSE]

\* verifyToken whose first rejection lacks its return
verifyTokenFlow_NoReturn ==
    [try |-> <<[Rejection(401) EXCEPT !.returns = FALSE], Throwing, CallNext>>,
     catch |-> <<Rejection(401), Rejection(401), Return(500)>>]

verifyTokenFlow ==
    [try |-> <<Rejection(401), Throwing, CallNext>>,
     catch |-> <<Rejection(401), Rejection(401), Return(500)>>]

requireUserTypeFlow ==
    [try |-> <<Rejection(401), Rejection(403), CallNext>>, catch |-> <<>>]

loginFlow ==
    [try |-> <<Throwing, Rejection(400), Rejection(401), Rejection(401), Throwing,
               Rejection(401), Throwing, Answer(200)>>,
     catch |-> <<Answer(500)>>]

registerFlow ==
    [try |-> <<Throwing, Rejection(400), Rejection(400), Rejection(400),
               Rejection(400), Throwing, Answer(201)>>,
     catch |-> <<Answer(500)>>]

registerDisabledFlow == [try |-> <<Return(403)>>, catch |-> <<>>]

processFlow ==
    [try |-> <<Throwing, Rejection(400), Rejection(400), Rejection(400),
               Rejection(400), Throwing, Answer(200)>>,
     catch |-> <<Answer(500)>>]

historyFlow == [try |-> <<Throwing, Answer(200)>>, catch |-> <<Answer(500)>>]

getByIdFlow ==
    [try |-> <<Throwing, Rejection(404), Rejection(403), Answer(200)>>,
     catch |-> <<Answer(500)>>]

\* the routes as mounted, and one guarded by requireUserType as well
Routes ==
    [login |-> <<loginFlow>>,
     register |-> <<registerFlow>>,
     registerDisabled |-> <<registerDisabledFlow>>,
     process |-> <<verifyTokenFlow, processFlow>>,
     history |-> <<verifyTokenFlow, historyFlow>>,
     getById |-> <<verifyTokenFlow, getByIdFlow>>,
     guarded |-> <<verifyTokenFlow, requireUserTypeFlow, historyFlow>>,
     unverified |-> <<requireUserTypeFlow, historyFlow>>]

\* The call stack of the request in flight: the frame on top is the handler
\* running, at statement i of its try or catch block.
Frame(h, block, i) == [h |-> h, block |-> block, i |-> i]
Returned(stack) == SubSeq(stack, 1, Len(stack) - 1)
Advanced(stack) ==
    [stack EXCEPT ![Len(stack)].i = stack[Len(stack)].i + 1]
PathState(route, stack, sent) ==
    [NoResp EXCEPT !.op = IF stack = <<>> THEN "path" ELSE "none",
                   !.req = [kind |-> "path", route |-> route, stack |-> stack],
                   !.body = sent]

\* One statement of the handler running: a rejection fires or not, a
\* throwing statement throws or not, a call of next() enters the next
\* handler and comes back when that one returns, the end of a block returns.
RunStatement ==
    /\ resp.op = "none"
    /\ resp.req.kind = "path"
    /\ resp.req.stack # <<>>
    /\ LET route == resp.req.route
           stack == resp.req.stack
           sent == resp.body
           top == stack[Len(stack)]
           handler == Routes[route][top.h]
           block == IF top.block = "try" THEN handler.try ELSE handler.catch
       IN  IF top.i > Len(block)
           THEN resp' = PathState(route, Returned(stack), sent)
           ELSE LET st == block[top.i]
                    after == IF st.returns THEN Returned(stack) ELSE Advanced(stack)
                IN  CASE st.kind = "reject" ->
                           \E fires \in BOOLEAN :
                               resp' = IF fires
                                       THEN PathState(route, after,
                                                      Append(sent, st.status))
                                       ELSE PathState(route, Advanced(stack), sent)
                      [] st.kind = "send" ->
                           resp' = PathState(route, after, Append(sent, st.status))
                      [] st.kind = "throw" ->
                           \E throws \in BOOLEAN :
                               resp' = IF throws /\ top.block = "try"
                                                 /\ handler.catch # <<>>
                                       THEN PathState(route,
                                                [stack EXCEPT ![Len(stack)] =
                                                     Frame(top.h, "catch", 1)],
                                                sent)
                                       ELSE PathState(route, Advanced(stack), sent)
                      [] st.kind = "next" ->
                           resp' = PathState(route,
                                       IF top.h < Len(Routes[route])
                                       THEN Append(Advanced(stack),
                                                   Frame(top.h + 1, "try", 1))
                                       ELSE Advanced(stack),
                                       sent)
    /\ UNCHANGED <<client, build, envSecret, users, accountsSeeded, seedPc,
                   pending, issued, transactions, okIds, now>>

\* One request to one of the routes, about to enter its first handler.
InitPaths ==
    /\ build \in Builds
    /\ envSecret = EnvSecretValue
    /\ users = FixtureUsers
    /\ accountsSeeded = (build = "logged")
    /\ seedPc = IF build = "open" THEN "none" ELSE "done"
    /\ pending = EmptyBag
    /\ issued = {}
    /\ transactions = <<>>
    /\ okIds = <<>>
    /\ now = ClockStart
    /\ \E route \in DOMAIN Routes :
           /\ route = "register" => build = "open"
           /\ route = "registerDisabled" => build # "open"
           /\ resp = PathState(route, <<Frame(1, "try", 1)>>, <<>>)
    /\ client = NoSession

SpecPaths == InitPaths /\ [][RunStatement]_vars

(***************************************************************************)
(* Properties of the ledger, checked under SpecLedger.                      *)
(***************************************************************************)
Records(m) == {m[i] : i \in DOMAIN m}

\* C1: a record is visible only to its owner. A history response holds exactly
\* the stored records whose initiatedBy is the caller's email (each once), and
\* a getById response never carries a record of another owner.
C1_VisibleOnlyToOwner ==
    /\ resp.op = "history" =>
         LET mine == {r \in Records(transactions) : r.initiatedBy = resp.user.email}
         IN  /\ {resp.body[j] : j \in DOMAIN resp.body} = mine
             /\ Len(resp.body) = Cardinality(mine)
    /\ resp.op = "getById" =>
         \A j \in DOMAIN resp.body : resp.body[j].initiatedBy = resp.user.email

\* C1, its case: a caller was shown its records while the ledger also holds a
\* record of somebody else
C1_Witness ==
    /\ resp.op = "history"
    /\ resp.body # <<>>
    /\ \E r \in Records(transactions) : r.initiatedBy # resp.user.email

\* C2: getById checks existence first and ownership second. For an
\* authenticated caller, an id that is not in the ledger is answered 404
\* 'Transaction not found' whoever asks, an id of a record of the caller is
\* answered 200 with the full record, and an id of a record of somebody else
\* is answered 403.
C2_ExistenceThenOwnership ==
    (resp.op = "getById" /\ resp.user # NoUser) =>
        LET hits == {r \in Records(transactions) :
                        r.transactionId = resp.req.transactionId}
        IN  /\ hits = {} =>
                /\ resp.status = 404
                /\ resp.message = Msg("Transaction not found")
                /\ resp.body = <<>>
            /\ \A r \in hits :
                IF r.initiatedBy = resp.user.email
                THEN resp.status = 200 /\ resp.body = <<r>>
                ELSE resp.status = 403 /\ resp.body = <<>>

\* C2, its case: an authenticated caller asked for a record of somebody else
C2_Witness ==
    /\ resp.op = "getById"
    /\ resp.status = 403
    /\ \E r \in Records(transactions) :
         r.transactionId = resp.req.transactionId /\ r.initiatedBy # resp.user.email

\* C3: N successful record operations produce N pairwise distinct
\* transactionIds and the ledger then holds N records.
C3_DistinctIds ==
    /\ \A i, j \in DOMAIN okIds : i # j => okIds[i] # okIds[j]
    /\ Len(transactions) = Len(okIds)

\* C4: a record is never updated or removed once stored: what the ledger maps
\* a transactionId to stays in the ledger, unchanged, in every later state.
C4_NeverUpdated ==
    [][\A r \in Records(transactions) : r \in Records(transactions')]_vars

(***************************************************************************)
(* Properties of the credential store and of login, checked under SpecAuth. *)
(* resp.found is the user object the handler got from users.get (for a      *)
(* register response: what users held for the email when it was answered).  *)
(***************************************************************************)
RoleMismatchText == "This account is registered for ${user.userType} portal"

\* the request of the response was a login with an email, a password and a
\* userType that are strings, and users.get found a principal
LoginFound ==
    /\ resp.op = "login"
    /\ resp.req.body.email.t = "string"
    /\ resp.req.body.password.t = "string"
    /\ resp.req.body.userType.t = "string"
    /\ resp.found # <<>>

PasswordVerifies ==
    bcryptHash(resp.req.body.password.s, resp.found[1].password.salt)
        = resp.found[1].password

\* C5: of two register operations with the same email exactly one succeeds and
\* the other is rejected with 'User already exists': a register is answered
\* 201 only if the store held no principal for the email when it stored its own.
C5_OneSuccessPerEmail ==
    (resp.op = "register" /\ resp.status = 201) => resp.found = <<>>

\* C6: a principal is never mutated after creation: once the store holds a
\* principal for an email, its role and password hash are the same in every
\* later state.
C6_PrincipalImmutable ==
    [][\A e \in DOMAIN users :
          /\ e \in DOMAIN users'
          /\ users'[e].userType = users[e].userType
          /\ users'[e].password = users[e].password]_vars

\* C7: a login with a syntactically valid email that has no principal, and a
\* login with an existing email and a wrong password, are both answered 401
\* 'Invalid credentials', whatever role is claimed.
C7_NoEnumeration ==
    (/\ resp.op = "login"
     /\ resp.req.body.email.t = "string"
     /\ resp.req.body.password.t = "string"
     /\ resp.req.body.userType.t = "string"
     /\ validateEmail(sanitizeInput(resp.req.body.email.s))
     /\ (resp.found = <<>> \/ ~PasswordVerifies))
        => (resp.status = 401 /\ resp.message = Msg("Invalid credentials"))

\* C8: login answers RoleMismatch only when the principal exists, the password
\* verifies and the claimed role differs from the stored one.
C8_RoleMismatchOnlyAfterPassword ==
    (resp.op = "login" /\ resp.message.text = RoleMismatchText) =>
        /\ LoginFound
        /\ PasswordVerifies
        /\ resp.req.body.userType.s # resp.found[1].userType

\* C9 as stated: with the principal's correct password, a claimedRole that
\* differs from the stored role is answered RoleMismatch naming the stored
\* role, and a claimedRole equal to it is answered with a token.
C9_AsStated ==
    (LoginFound /\ PasswordVerifies) =>
        IF resp.req.body.userType.s # resp.found[1].userType
        THEN /\ resp.status = 401
             /\ resp.message = MsgWith(RoleMismatchText, resp.found[1].userType)
             /\ resp.token = NoToken
        ELSE resp.status = 200 /\ resp.token.wf

\* C9 amended: with the correct password of the principal that login looked
\* up, a claimedRole that differs from that principal's role after trimming
\* and escaping is answered 401 with the message naming the principal's role
\* and no token, and one that equals it after trimming and escaping is
\* answered 200 with a token.
C9_RoleAfterSanitation ==
    (LoginFound /\ PasswordVerifies) =>
        IF sanitizeInput(resp.req.body.userType.s) # resp.found[1].userType
        THEN /\ resp.status = 401
             /\ resp.message = MsgWith(RoleMismatchText, resp.found[1].userType)
             /\ resp.token = NoToken
        ELSE resp.status = 200 /\ resp.token.wf

\* C9, its cases: a correct password with the other role claimed was turned
\* away, and one with the role padded by blanks was let in
C9_Witness ==
    /\ LoginFound /\ PasswordVerifies
    /\ resp.status = 401
    /\ resp.message.arg = CUSTOMER
    /\ resp.req.body.userType.s = EMPLOYEE

\* C10: the token of a successful login carries exactly the email and the role
\* of the principal that was authenticated, not the raw email or the claimed
\* role of the request, and the response's user object carries the same.
C10_TokenCarriesPrincipal ==
    (resp.op = "login" /\ resp.status = 200) =>
        /\ resp.found # <<>>
        /\ resp.token.wf
        /\ resp.token.email = resp.found[1].email
        /\ resp.token.userType = resp.found[1].userType
        /\ resp.user = [email |-> resp.found[1].email,
                        userType |-> resp.found[1].userType]
        /\ resp.token \in issued

\* C10, its case: a login succeeded whose raw email and claimed role are not
\* the stored ones (they are padded with blanks)
C10_Witness ==
    /\ resp.op = "login" /\ resp.status = 200
    /\ resp.req.body.email.s # resp.token.email
    /\ resp.req.body.userType.s # resp.token.userType

(***************************************************************************)
(* Properties of the middleware, checked under SpecToken. A step's resp' is *)
(* the response to the request the step served, and the unprimed clock is   *)
(* the instant at which verifyToken looked at the request.                  *)
(***************************************************************************)
ProtectedOps == {"process", "history", "getById"}

\* the response comes from a route mounted behind verifyToken
Verified(r) == r.op \in ProtectedOps \/ (r.op = "guard" /\ r.req.verified)

\* C11: a token that login issued, with expiry instant T, is accepted by
\* verify at every time before T and is answered 401 'Token expired' at every
\* time after T; the instant that counts is the one of the verification, so a
\* request verified before T is served although T passes during its handling.
C11_ExpiryAtVerification ==
    [][\A tok \in issued :
          (Verified(resp') /\ resp'.req.authHeader = Bearer(tok)) =>
              /\ now < tok.exp * 1000 =>
                    /\ resp'.user = [email |-> tok.email, userType |-> tok.userType]
                    /\ resp'.message \notin {Msg("No token provided"),
                                              Msg("Invalid token"),
                                              Msg("Token expired")}
              /\ now > tok.exp * 1000 =>
                    /\ resp'.status = 401
                    /\ resp'.message = Msg("Token expired")]_vars

\* C12: a request whose Authorization header is absent or does not start with
\* 'Bearer ' is answered 401 'No token provided' whatever the rest of the
\* header holds (an expired, a forged or a valid token): req.user is not set
\* and the handler does not run.
C12_MissingToken ==
    (Verified(resp) /\ resp.req.authHeader.scheme # "Bearer ") =>
        /\ resp.status = 401
        /\ resp.message = Msg("No token provided")
        /\ resp.user = NoUser
        /\ resp.body = <<>>

\* C12, its case: a header of another scheme carried a token of this process
\* that had already expired, and the answer was still 'No token provided'
C12_Witness ==
    /\ resp.op = "guard" /\ resp.req.verified
    /\ resp.req.authHeader.scheme = "Basic "
    /\ resp.req.authHeader.token \in issued
    /\ resp.req.authHeader.token.key = VerifyKey
    /\ now >= resp.req.authHeader.token.exp * 1000
    /\ resp.status = 401

\* C13: a bearer token whose signature does not verify under the key of the
\* process, or whose payload is malformed (it is no JWT, or it lacks the email
\* or the userType claim), is answered 401 'Invalid token' and never attaches
\* a user.
C13_InvalidToken ==
    (/\ Verified(resp)
     /\ resp.req.authHeader.scheme = "Bearer "
     /\ LET tok == resp.req.authHeader.token
        IN  \/ ~tok.wf
            \/ tok.key # VerifyKey
            \/ tok.email = Missing
            \/ tok.userType = Missing)
        => /\ resp.status = 401
           /\ resp.message = Msg("Invalid token")
           /\ resp.user = NoUser

\* C14: requireUserType answers 401 'Authentication required' when no user was
\* attached by a successful verifyToken, 403 'Insufficient permissions' when
\* the attached user's userType is not among the allowed ones, and passes
\* control on otherwise; the attached user, the credential store and the
\* ledger are the same after it as before.
C14_Authorize ==
    [][resp'.op = "guard" =>
          LET auth == verifyToken(resp'.req.authHeader, now)
              attached == resp'.req.verified /\ auth.status = 200
          IN  /\ (~resp'.req.verified \/ attached) =>
                    /\ ~attached =>
                          /\ resp'.status = 401
                          /\ resp'.message = Msg("Authentication required")
                    /\ (attached /\ auth.user.userType \notin resp'.req.allowedTypes) =>
                          /\ resp'.status = 403
                          /\ resp'.message = Msg("Insufficient permissions")
                    /\ (attached /\ auth.user.userType \in resp'.req.allowedTypes) =>
                          resp'.status = 200
                    /\ resp'.user = IF attached THEN auth.user ELSE NoUser
              /\ users' = users
              /\ transactions' = transactions]_vars

\* C14, its cases: a customer was turned away from a route for employees
C14_Witness ==
    /\ resp.op = "guard"
    /\ resp.status = 403
    /\ resp.user.userType = CUSTOMER
    /\ resp.req.allowedTypes = {EMPLOYEE}

Validated ==
    /\ resp.op = "process"
    /\ resp.user # NoUser
    /\ resp.req.body.recipientName.t = "string"
    /\ resp.req.body.recipientAccount.t = "string"
    /\ resp.req.body.swiftCode.t = "string"

GoodBody == PaymentBody(Str(Amount1250), Str(NameBo), Str(Account8), Str(SwiftLower))

RuleOrder == <<"amount", "recipientName", "recipientAccount", "swiftCode">>
RuleMessages ==
    <<Msg("Invalid amount"), Msg("Invalid recipient name"),
      Msg("Invalid recipient account number"), Msg("Invalid SWIFT/BIC code format")>>

\* what record answers when only the i-th field is the one of body and the
\* other three are valid
RuleAlone(i, body) ==
    processPayment(CustomerUser,
                   [GoodBody EXCEPT ![RuleOrder[i]] = body[RuleOrder[i]]],
                   now, "K3J9Q0ZXA", now)

Min(S) == CHOOSE x \in S : \A y \in S : x <= y

\* C16: record applies its rules in the order amount, recipientName,
\* recipientAccount, swiftCode: the one error it reports is the error of the
\* first field, in this order, that is rejected when it stands alone among
\* valid fields, the request succeeds when no field is rejected alone, and the
\* four rules report four different errors.
C16_FirstFailingRule ==
    /\ \A i, j \in DOMAIN RuleMessages : i # j => RuleMessages[i] # RuleMessages[j]
    /\ Validated =>
         LET failing == {i \in DOMAIN RuleOrder :
                            RuleAlone(i, resp.req.body).status # 200}
         IN  /\ \A i \in failing :
                   /\ RuleAlone(i, resp.req.body).status = 400
                   /\ RuleAlone(i, resp.req.body).message = RuleMessages[i]
             /\ IF failing = {} THEN resp.status = 200
                ELSE /\ resp.status = 400
                     /\ resp.message = RuleMessages[Min(failing)]

\* C16, its case: the amount, the name and the account of one request were all
\* invalid and the amount was the one reported
C16_Witness ==
    /\ Validated
    /\ resp.message = Msg("Invalid amount")
    /\ RuleAlone(2, resp.req.body).status = 400
    /\ RuleAlone(3, resp.req.body).status = 400

\* the whole of s, white space at its ends aside, is a decimal numeral
\* (digits with an optional fraction, an optional + sign) of a value above zero
IsPositiveDecimal(v) ==
    /\ v.t = "string"
    /\ LET s == Trim(v.s)
           u == IF s # <<>> /\ Head(s) = "+" THEN Tail(s) ELSE s
           ip == DigitPrefix(u)
           r1 == Drop(u, Len(ip))
           dot == r1 # <<>> /\ Head(r1) = "."
           fp == IF dot THEN DigitPrefix(Tail(r1)) ELSE <<>>
       IN  /\ ip \o fp # <<>>
           /\ Len(u) = Len(ip) + (IF dot THEN 1 + Len(fp) ELSE 0)
           /\ \E k \in DOMAIN (ip \o fp) : (ip \o fp)[k] # "0"

\* C17: record answers 'Invalid amount' for every amount that is not a
\* positive, finite decimal number (text that is no number, zero, a negative
\* value, an infinite value, a numeral followed by other characters), and only
\* a positive finite amount is ever stored.
C17_InvalidAmount ==
    /\ (Validated /\ ~IsPositiveDecimal(resp.req.body.amount)) =>
            /\ resp.status = 400
            /\ resp.message = Msg("Invalid amount")
    /\ \A r \in Records(transactions) :
            r.amount.kind = "num" /\ ~r.amount.neg /\ ~IsZero(r.amount)

\* C18: with the other three fields valid, record accepts the swiftCode
\* exactly when its trimmed, escaped and uppercased form is six letters, two
\* letters or digits and optionally three more letters or digits; every other
\* code is answered 'Invalid SWIFT/BIC code format', and the swiftCode that is
\* stored is that uppercased form.
C18_SwiftShape ==
    /\ (/\ Validated
        /\ resp.req.body.amount = GoodBody.amount
        /\ resp.req.body.recipientName = GoodBody.recipientName
        /\ resp.req.body.recipientAccount = GoodBody.recipientAccount) =>
            LET code == ToUpperCase(sanitizeInput(resp.req.body.swiftCode.s))
                shape == /\ Len(code) = 8 \/ Len(code) = 11
                         /\ \A i \in DOMAIN code :
                              \/ IsUpper(code[i])
                              \/ i > 6 /\ IsDigit(code[i])
            IN  IF shape
                THEN /\ resp.status = 200
                     /\ \E r \in Records(transactions) :
                          /\ r.transactionId = resp.body[1].transactionId
                          /\ r.swiftCode = code
                ELSE /\ resp.status = 400
                     /\ resp.message = Msg("Invalid SWIFT/BIC code format")
    /\ \A r \in Records(transactions) : r.swiftCode = ToUpperCase(r.swiftCode)

\* C18, its case: a code sent in lower case between blanks was accepted and
\* stored in upper case
C18_Witness ==
    /\ Validated
    /\ resp.status = 200
    /\ resp.req.body.swiftCode = Str(Padded(SwiftLower))
    /\ \E r \in Records(transactions) : r.swiftCode = ToUpperCase(SwiftLower)

\* C19: a successful record stores exactly one new record: its initiatedBy and
\* userType are the email and the role of the caller's token, its status is
\* 'completed', its text fields are the trimmed and escaped inputs (the
\* swiftCode uppercased), its amount is the amount of the request, and the
\* response carries the transactionId, amount, recipientName, status and
\* timestamp of that record.
C19_StoredRecord ==
    (resp.op = "process" /\ resp.status = 200) =>
        /\ Len(transactions) = 1
        /\ LET r == transactions[1]
               body == resp.req.body
               claims == resp.req.authHeader.token
           IN  /\ r.initiatedBy = claims.email
               /\ r.userType = claims.userType
               /\ r.status = "completed"
               /\ r.recipientName = sanitizeInput(body.recipientName.s)
               /\ r.recipientAccount = sanitizeInput(body.recipientAccount.s)
               /\ r.swiftCode = sanitizeInput(ToUpperCase(body.swiftCode.s))
               /\ r.amount = parseFloat(body.amount)
               /\ resp.body = << [transactionId |-> r.transactionId,
                                  amount |-> r.amount,
                                  recipientName |-> r.recipientName,
                                  status |-> r.status,
                                  timestamp |-> r.timestamp] >>

(***************************************************************************)
(* A property of the ledger's history, checked under SpecLedger.            *)
(***************************************************************************)
\* the position of the entry of a transactionId in the ledger
Position(transactionId) ==
    CHOOSE k \in DOMAIN transactions : transactions[k].transactionId = transactionId

C21_ReadOnlyRestartable ==
    [][/\ resp'.op \in {"history", "getById"} =>
            /\ transactions' = transactions
            /\ okIds' = okIds
            /\ users' = users
       /\ (resp'.op = "history" /\ resp'.status = 200) =>
            resp'.body = userTransactions(transactions, resp'.user)
       /\ (/\ resp.op = "history" /\ resp.status = 200
           /\ resp'.op = "history" /\ resp'.status = 200
           /\ resp'.user = resp.user) =>
            resp'.body = resp.body]_vars

\* C21, its case: a caller with records in a full ledger was shown them (the
\* next call of the same caller is then the restarted one)
C21_Witness ==
    /\ resp.op = "history" /\ resp.status = 200
    /\ resp.body # <<>>
    /\ Len(transactions) = MaxTxns

(***************************************************************************)
(* Properties of the auth routes' validation, checked under SpecRequest.    *)
(* resp.req is the request of the response (before the answer: the request  *)
(* in flight).                                                              *)
(***************************************************************************)
WeakPasswordText ==
    "Password must be 8+ characters with uppercase, lowercase, number, and special character"

\* the request of the response carried a password that is a string and fails
\* the policy
FailsPolicy(r) ==
    /\ r.req.body.password.t = "string"
    /\ ~validatePassword(r.req.body.password.s)

\* C22 as stated: a register request whose password fails a clause of the
\* policy is answered WeakPassword.
C22_AsStated ==
    (resp.op = "register" /\ FailsPolicy(resp)) =>
        /\ resp.status = 400
        /\ resp.message = Msg(WeakPasswordText)

\* C22 amended: no register request reaches bcrypt.hash with a password that
\* fails the policy and no principal has such a password; a register request
\* with such a password creates no principal and, where registration is
\* enabled and the email is a string that is valid after sanitation (the
\* userType a string too), is answered 400 WeakPassword, otherwise with the
\* error that comes before the policy (403 where registration is disabled,
\* 'Invalid email format', 500 for an absent email or userType); login never
\* applies the policy: a login whose password fails it is taken to
\* bcrypt.compare like any other and answered 'Invalid credentials'.
C22_PolicyBeforeHash ==
    /\ \A p \in BagToSet(pending) :
         p.op = "register" =>
            /\ p.body.password.t = "string"
            /\ validatePassword(p.body.password.s)
    /\ \A e \in DOMAIN users : validatePassword(users[e].password.plain)
    /\ (resp.op = "register" /\ FailsPolicy(resp)) =>
         /\ users = FixtureUsers
         /\ IF build # "open"
            THEN resp.status = 403
            ELSE IF resp.req.body.email.t # "string" \/ resp.req.body.userType.t # "string"
            THEN resp.status = 500
            ELSE IF ~validateEmail(sanitizeInput(resp.req.body.email.s))
            THEN resp.status = 400 /\ resp.message = Msg("Invalid email format")
            ELSE resp.status = 400 /\ resp.message = Msg(WeakPasswordText)
    /\ resp.op = "login" =>
         /\ resp.message.text # WeakPasswordText
         /\ (/\ FailsPolicy(resp)
             /\ resp.found # <<>>
             /\ resp.req.body.userType.t = "string"
             /\ sanitizeInput(resp.req.body.userType.s) = resp.found[1].userType) =>
                /\ resp.status = 401
                /\ resp.message = Msg("Invalid credentials")

\* C22, its case: a registration for a new, valid email was refused for a
\* password that fails the special-character clause alone
C22_Witness ==
    /\ resp.op = "register"
    /\ resp.status = 400
    /\ resp.message = Msg(WeakPasswordText)
    /\ resp.req.body.email = Str(NOBODY_EMAIL)
    /\ resp.req.body.password = Str(<<"A", "b", "c", "d", "e", "f", "g", "1", "_">>)

\* C23: every validation failure of login and record is answered with its
\* typed error and never with a generic internal failure: a login whose email
\* or userType is absent or not a string is answered 400 (ValidationError), a
\* record whose recipientName, recipientAccount or swiftCode is absent or not
\* a string is answered with the Invalid* error of that field, and neither
\* route answers 500.
C23_TypedErrors ==
    /\ resp.op = "login" =>
         /\ resp.status # 500
         /\ (\/ resp.req.body.email.t # "string"
             \/ resp.req.body.userType.t # "string") => resp.status = 400
    /\ resp.op = "process" =>
         /\ resp.status # 500
         /\ resp.req.body.recipientName.t # "string" =>
                resp.message = Msg("Invalid recipient name")
         /\ resp.req.body.recipientAccount.t # "string" =>
                resp.message = Msg("Invalid recipient account number")
         /\ resp.req.body.swiftCode.t # "string" =>
                resp.message = Msg("Invalid SWIFT/BIC code format")

\* C25: the sanitation of the login email does not alter a syntactically
\* valid email. For every login whose email is valid once trimmed, the value
\* used for validation and lookup is the trimmed input, so the login is not
\* turned away for its email's format.
C25_SanitationKeepsEmail ==
    (/\ resp.op = "login"
     /\ resp.req.body.email.t = "string"
     /\ resp.req.body.userType.t = "string"
     /\ validateEmail(Trim(resp.req.body.email.s))) =>
        /\ sanitizeInput(resp.req.body.email.s) = Trim(resp.req.body.email.s)
        /\ resp.message # Msg("Invalid email format")

\* the checks of login in their order, for a request body against a store:
\* the number of the first check that fails, 0 when all pass
FirstFailedCheck(m, body) ==
    IF body.email.t # "string" \/ body.userType.t # "string" THEN 1
    ELSE IF ~validateEmail(sanitizeInput(body.email.s)) THEN 2
    ELSE IF sanitizeInput(body.email.s) \notin DOMAIN m THEN 3
    ELSE IF m[sanitizeInput(body.email.s)].userType # sanitizeInput(body.userType.s)
    THEN 4
    ELSE IF \/ body.password.t # "string"
            \/ bcryptHash(body.password.s, m[sanitizeInput(body.email.s)].password.salt)
                  # m[sanitizeInput(body.email.s)].password
    THEN 5
    ELSE 0

\* C30: login issues a token if and only if all its checks passed, in the
\* order sanitize, email syntax, principal lookup, role match, password
\* verification. A login answer carries a token exactly when it is a 200 and
\* no check fails; a malformed email is answered 400, an absent principal and
\* a password that does not verify 401 'Invalid credentials', a differing role
\* 401 naming the stored role, each as the first failing check, none with a
\* token; and no step of login changes the credential store.
C30_TokenIffAllChecks ==
    [][resp'.op = "login" =>
          LET failed == FirstFailedCheck(users, resp'.req.body)
          IN  /\ users' = users
              /\ resp'.token # NoToken <=> resp'.status = 200
              /\ resp'.status = 200 <=> failed = 0
              /\ failed = 0 => resp'.token.wf /\ resp'.token \in issued'
              /\ failed = 2 => resp'.message = Msg("Invalid email format")
              /\ failed = 3 => resp'.message = Msg("Invalid credentials")
              /\ failed = 4 => resp'.message.text = RoleMismatchText
              /\ failed = 5 => resp'.status \in {401, 500}
              /\ (failed = 5 /\ resp'.req.body.password.t = "string") =>
                    resp'.message = Msg("Invalid credentials")]_vars

\* C30, its cases: a login with the right password was turned away for its
\* role, so the role is looked at before the password
C30_Witness ==
    /\ resp.op = "login"
    /\ resp.token = NoToken
    /\ resp.message.text = RoleMismatchText
    /\ resp.req.body.email = Str(CUSTOMER_EMAIL)
    /\ resp.req.body.password = Str(CUSTOMER_PASS)

(***************************************************************************)
(* Properties of registration, seeding and login, checked under SpecAuth.   *)
(***************************************************************************)
\* C24: registration is disabled. Every register request, whatever its body,
\* is answered 403 and leaves the credential store as it was, and once the
\* seeding is over (or where there is none) the set of principals never
\* changes.
C24_RegistrationDisabled ==
    [][/\ resp'.op = "register" =>
            /\ resp'.status = 403
            /\ users' = users
       /\ seedPc \in {"done", "none"} => DOMAIN users' = DOMAIN users]_vars

\* C26: every session token that login issues expires 24 hours after it was
\* issued: the lifetime is one fixed value, the same for every token.
C26_Expiry24h ==
    /\ \A tok \in issued : tok.exp = tok.iat + TTL_24H
    /\ (resp.op = "login" /\ resp.status = 200) =>
            resp.token.exp * 1000 = now - (now % 1000) + TTL_24H * 1000

\* the login requests of the two pre-seeded accounts
SeededLogins ==
    {AuthBody(Str(EMPLOYEE_EMAIL), Str(EMPLOYEE_PASS), Str(EMPLOYEE)),
     AuthBody(Str(CUSTOMER_EMAIL), Str(CUSTOMER_PASS), Str(CUSTOMER))}

\* C27: in a build that pre-seeds accounts, once the server accepts requests
\* a login with a pre-seeded account succeeds: no login is handled in a state
\* in which the seeding has not yet inserted that account.
C27_SeededLoginSucceeds ==
    (/\ seedPc # "none"
     /\ resp.op = "login"
     /\ resp.req.body \in SeededLogins) =>
        /\ resp.found # <<>>
        /\ resp.status = 200

\* the seeding is over and the store holds exactly the two fixture principals
SeededExactly(m, pc) ==
    pc = "done" =>
        /\ DOMAIN m = {EMPLOYEE_EMAIL, CUSTOMER_EMAIL}
        /\ m[EMPLOYEE_EMAIL].email = EMPLOYEE_EMAIL
        /\ m[EMPLOYEE_EMAIL].userType = EMPLOYEE
        /\ m[CUSTOMER_EMAIL].email = CUSTOMER_EMAIL
        /\ m[CUSTOMER_EMAIL].userType = CUSTOMER

C31_SameKey ==
    \A tok \in issued :
        /\ tok.key = VerifyKey
        /\ now < tok.exp * 1000 =>
              /\ verifyToken(Bearer(tok), now).status = 200
              /\ verifyToken(Bearer(tok), now).user
                    = [email |-> tok.email, userType |-> tok.userType]

Roles == {CUSTOMER, EMPLOYEE}

\* C33: in every reachable state every principal of the credential store has
\* a role in {customer, employee} and is stored under the key that is its own
\* email field. No register request waits at bcrypt.hash with another role,
\* none with another role is answered 201, and one that passed the checks
\* before the role's (email, password, no principal for the email) is
\* answered 400 'Invalid user type'.
C33_RolesAndKeys ==
    /\ \A e \in DOMAIN users :
         /\ users[e].email = e
         /\ users[e].userType \in Roles
    /\ \A p \in BagToSet(pending) :
         p.op = "register" => sanitizeInput(p.body.userType.s) \in Roles
    /\ (/\ resp.op = "register"
        /\ resp.req.body.userType.t = "string"
        /\ sanitizeInput(resp.req.body.userType.s) \notin Roles) =>
            /\ resp.status # 201
            /\ (/\ build = "open"
                /\ resp.req.body.email.t = "string"
                /\ validateEmail(sanitizeInput(resp.req.body.email.s))
                /\ resp.req.body.password.t = "string"
                /\ validatePassword(resp.req.body.password.s)
                /\ resp.found = <<>>) =>
                    /\ resp.status = 400
                    /\ resp.message = Msg("Invalid user type")

\* C33, its case: a registration as admin for a new email with a good
\* password was refused for its user type
C33_Witness ==
    /\ resp.op = "register"
    /\ resp.req.body.userType = Str(ADMIN)
    /\ resp.status = 400
    /\ resp.message = Msg("Invalid user type")
    /\ resp.found = <<>>

(***************************************************************************)
(* A property of the protected routes, checked under SpecToken.             *)
(***************************************************************************)
\* C29: a protected ledger handler (record, history, getById) runs only after
\* verifyToken has succeeded for the same request, with the token's email and
\* role attached as req.user. A request whose verification fails (no token,
\* an expired or an invalid one) gets the 401 of verifyToken, no user, no
\* data, and leaves the ledger as it was; an answer other than 401, a body or
\* a change of the ledger comes only with a successful verification, and a
\* record that is stored is stored for the token's email and role.
C29_HandlerAfterVerify ==
    [][resp'.op \in ProtectedOps =>
          LET auth == verifyToken(resp'.req.authHeader, now)
              tok == resp'.req.authHeader.token
          IN  /\ auth.status # 200 =>
                    /\ resp'.status = 401
                    /\ resp'.message = auth.message
                    /\ resp'.user = NoUser
                    /\ resp'.body = <<>>
                    /\ transactions' = transactions
                    /\ okIds' = okIds
              /\ (\/ resp'.status # 401
                  \/ resp'.body # <<>>
                  \/ transactions' # transactions) =>
                    /\ auth.status = 200
                    /\ resp'.user = [email |-> tok.email, userType |-> tok.userType]
              /\ \A r \in Records(transactions') \ Records(transactions) :
                    r.initiatedBy = tok.email /\ r.userType = tok.userType]_vars

\* C29, its case: a caller who had stored a record sent a valid record
\* request with the same token after it expired and was turned away
C29_Witness ==
    /\ resp.op = "process"
    /\ resp.status = 401
    /\ resp.message = Msg("Token expired")
    /\ resp.req.body = GoodBody
    /\ \E r \in Records(transactions) :
         r.initiatedBy = resp.req.authHeader.token.email

\* the valid request with one of its fields replaced by each input of the
\* validation, or by a field that is absent or a number
OneFieldBodies ==
    {[GoodBody EXCEPT !.amount = v] : v \in AmountInputs}
        \cup {[GoodBody EXCEPT !.recipientName = v] : v \in NameInputs}
        \cup {[GoodBody EXCEPT !.recipientAccount = v] : v \in AccountInputs}
        \cup {[GoodBody EXCEPT !.swiftCode = v] : v \in SwiftInputs}
        \cup FieldBodies

\* C32: a record request that is rejected by a validation rule, or that fails
\* with an internal error, leaves the ledger exactly as it was: a step that
\* answers a record request with anything but 200 adds, changes and removes
\* no record and consumes no transactionId, and the handler produces no
\* record for a request it does not answer 200, whichever rule rejects it
\* (the handler is a function of the request and the clock, so this part is
\* evaluated at the instants before a request is answered).
C32_RejectedLeavesLedger ==
    [][/\ resp.op = "none" =>
            \A body \in OneFieldBodies :
                LET out == processPayment(CustomerUser, body, now, "K3J9Q0ZXA", now)
                IN  out.status # 200 => out.txn = <<>>
       /\ (resp'.op = "process" /\ resp'.status # 200) =>
            /\ transactions' = transactions
            /\ okIds' = okIds
            /\ resp'.body = <<>>]_vars

\* C32, its case: a request without a recipient account failed with the
\* internal error while the ledger held a record
C32_Witness ==
    /\ resp.op = "process"
    /\ resp.status = 500
    /\ resp.user # NoUser
    /\ transactions # <<>>

\* C34: on every path through verifyToken, requireUserType and the login,
\* register, record, history and getById handlers a request is answered exactly
\* once: never a second response, no call of next() and no further statement
\* of any handler after a response, and no path that ends without one.
C34_OneResponse ==
    [][/\ Len(resp'.body) <= 1
       /\ resp'.op = "path" => Len(resp'.body) = 1
       /\ resp.body # <<>> =>
             /\ resp'.body = resp.body
             /\ Len(resp'.req.stack) < Len(resp.req.stack)]_vars

\* verifyToken has rejected a request to /process with 401 and the request is
\* over: the handler behind it has not answered
C34_Witness ==
    /\ resp.op = "path"
    /\ resp.req.route = "process"
    /\ resp.body = <<401>>

\* C35: when the amount passes its rule, record answers 'Invalid recipient
\* name' exactly when the trimmed and escaped recipientName has fewer than 2
\* characters, and, when the name passes too, 'Invalid recipient account
\* number' exactly when the trimmed and escaped recipientAccount has fewer than
\* 5 characters: the length counted is that of the sanitized value, whatever
\* the length of the text that was sent.
C35_LengthAfterSanitation ==
    (/\ Validated
     /\ ~isNaN(parseFloat(resp.req.body.amount))
     /\ ~LeqZero(parseFloat(resp.req.body.amount))) =>
        LET name == sanitizeInput(resp.req.body.recipientName.s)
            account == sanitizeInput(resp.req.body.recipientAccount.s)
            nameError == /\ resp.status = 400
                         /\ resp.message = Msg("Invalid recipient name")
            accountError == /\ resp.status = 400
                            /\ resp.message = Msg("Invalid recipient account number")
        IN  /\ nameError <=> Len(name) < 2
            /\ Len(name) >= 2 => (accountError <=> Len(account) < 5)

\* C35, its case: a name of one character and an account of one character,
\* each escaped to an entity of enough characters, were accepted and stored
C35_Witness ==
    /\ Validated
    /\ resp.status = 200
    /\ resp.req.body.recipientName = Str(<<"<">>)
    /\ resp.req.body.recipientAccount = Str(<<"'">>)
    /\ \E r \in Records(transactions) :
          Len(r.recipientName) = 4 /\ Len(r.recipientAccount) = 6

\* the server can handle the request that is in flight: the handler is
\* stopped neither by the number of suspended handlers nor by a full ledger
Answerable ==
    (resp.op = "none" /\ resp.req.kind # "none") =>
        CASE resp.req.kind = "login" ->
                 loginLookup(users, resp.req.body).await =>
                     BagCardinality(pending) < MaxPending
          [] resp.req.kind = "register" ->
                 (build = "open" /\ registerCheck(users, resp.req.body).await) =>
                     BagCardinality(pending) < MaxPending
          [] resp.req.kind = "process" ->
                 LET auth == verifyToken(resp.req.authHeader, now)
                 IN  (/\ auth.status = 200
                      /\ processPayment(auth.user, resp.req.body, now,
                                        "K3J9Q0ZXA", now).status = 200) =>
                         Len(okIds) < MaxTxns

\* C36: the client's session state stays consistent whatever the order of
\* logins, registrations, payments, logouts, responses and network errors:
\* logged in, it holds a token the server issued, logged out, it holds none;
\* the token changes only to the token of a successful login response (and
\* isLoggedIn becomes true) or to empty at a logout (and isLoggedIn becomes
\* false), and isLoggedIn never changes without it; and whenever loading is
\* true it becomes false again, whether the request succeeds, is rejected or
\* fails on the network.
C36_SessionConsistent ==
    /\ [](IF client.isLoggedIn
          THEN client.token # NoToken /\ client.token \in issued
          ELSE client.token = NoToken)
    /\ []Answerable
    /\ [][/\ client'.token # client.token =>
               \/ /\ resp.op = "login" /\ resp.status = 200
                  /\ client'.token = resp.token
                  /\ client'.isLoggedIn
                  /\ ~client'.loading
               \/ /\ client.isLoggedIn /\ ~client'.isLoggedIn
                  /\ client'.token = NoToken
                  /\ client'.dropped = client.token
          /\ client'.isLoggedIn # client.isLoggedIn =>
               client'.token # client.token]_vars
    /\ (client.loading ~> ~client.loading)

\* C36, its case: the client logged out while its payment was in flight, the
\* payment was answered, and it has logged in again as another principal
C36_Witness ==
    /\ client.isLoggedIn
    /\ ~client.loading
    /\ client.dropped # NoToken
    /\ client.token # client.dropped
    /\ transactions # <<>>
====
